---------------------------- MODULE Spec2Model ----------------------------
(***************************************************************************)
(* Model of the urbit/noun library: atoms (byte vectors with a bit         *)
(* length), cells, nouns held behind reference-counted pointers, and the   *)
(* jam/cue bit codec of src/noun.rs.                                       *)
(*                                                                         *)
(* Bits are BOOLEAN.  A byte is a number in 0..255.  A u64 is modelled as  *)
(* its 64 bits, least significant first, so that no value is cut to the    *)
(* width of the model's integers.  usize positions and counters are      *)
(* natural numbers; within the bounds of the model they never come near    *)
(* the width of usize.                                                     *)
(***************************************************************************)
EXTENDS Integers, Sequences, FiniteSets, TLC

(***************************************************************************)
(* Widths of the primitive types.                                          *)
(***************************************************************************)
U8Bits == 8

U64Bits == 64

U64Bytes == 8

(***************************************************************************)
(* u64 arithmetic, on the 64 bits of the value.                            *)
(***************************************************************************)
\* 2^k for the small k the model's integers can hold.
Pow2(k) == 2 ^ k

\* A usize/u32 value n (n < 2^31) widened to u64 (`x as u64`, u64::from).
u64_from(n) == [i \in 1..U64Bits |-> IF i <= 31 THEN (n \div Pow2(i - 1)) % 2 = 1 ELSE FALSE]

\* u64::leading_zeros.
leading_zeros(x) ==
    LET ones == {i \in 1..U64Bits : x[i]}
    IN  IF ones = {} THEN U64Bits
        ELSE U64Bits - (CHOOSE i \in ones : \A j \in ones : j <= i)

\* len & 1 != 0
u64_low_bit(x) == x[1]

\* len >>= 1
u64_shr1(x) == [i \in 1..U64Bits |-> IF i < U64Bits THEN x[i + 1] ELSE FALSE]

\* The u64 value 0 and the u64 value 1.
u64_zero == [i \in 1..U64Bits |-> FALSE]

u64_one == [i \in 1..U64Bits |-> i = 1]

\* Whether a u64 fits the model's integers, and its value when it does.
u64_is_small(x) == \A i \in 31..U64Bits : ~x[i]

RECURSIVE u64_small_value_from(_, _, _)
u64_small_value_from(x, lo, hi) ==
    IF lo = hi THEN (IF x[lo] THEN Pow2(lo - 1) ELSE 0)
    ELSE u64_small_value_from(x, lo, (lo + hi) \div 2)
             + u64_small_value_from(x, ((lo + hi) \div 2) + 1, hi)

u64_small_value(x) == u64_small_value_from(x, 1, 30)

\* k < len for a loop counter k (for _ in 0..len).
counter_below(k, len) == IF u64_is_small(len) THEN k < u64_small_value(len) ELSE TRUE

(***************************************************************************)
(* `1 << s` on u64 with a shift amount s >= 0.  A shift by 64 or more is   *)
(* an arithmetic overflow: with overflow checks on (a debug build) the     *)
(* program panics, with overflow checks off (a release build) the shift    *)
(* amount is masked to its low 6 bits.  wrapping_shl_one is the release    *)
(* result; the callers decide on the panic.                                *)
(***************************************************************************)
shl_overflows(s) == s >= U64Bits

wrapping_shl_one(s) == [i \in 1..U64Bits |-> i = ((s % U64Bits) + 1)]

\* len |= m, len &= !m for a one-bit mask m.
u64_or(x, m) == [i \in 1..U64Bits |-> x[i] \/ m[i]]

u64_and_not(x, m) == [i \in 1..U64Bits |-> x[i] /\ ~m[i]]

(***************************************************************************)
(* Bytes.                                                                  *)
(***************************************************************************)
\* byte & (1 << k) != 0
byte_bit(byte, k) == (byte \div Pow2(k)) % 2 = 1

\* u8::leading_zeros.
u8_leading_zeros(byte) ==
    LET ones == {k \in 0..(U8Bits - 1) : byte_bit(byte, k)}
    IN  IF ones = {} THEN U8Bits
        ELSE U8Bits - 1 - (CHOOSE k \in ones : \A j \in ones : j <= k)

\* *byte |= 1 << shift and *byte &= !(1 << shift)
byte_set(byte, shift) == IF byte_bit(byte, shift) THEN byte ELSE byte + Pow2(shift)

byte_clear(byte, shift) == IF byte_bit(byte, shift) THEN byte - Pow2(shift) ELSE byte

\* u8::rotate_left(1)
rotate_left1(mask) == ((mask * 2) % 256) + (mask \div 128)

(***************************************************************************)
(* Atoms: src/atom.rs.                                                     *)
(***************************************************************************)
\* fn bit_len(bytes: &[u8]) -> usize
bit_len(bytes) ==
    IF Len(bytes) > 0
    THEN U8Bits * (Len(bytes) - 1) + (U8Bits - u8_leading_zeros(bytes[Len(bytes)]))
    ELSE 0

\* Atom::null
null == [bytes |-> <<>>, bit_len |-> 0]

\* impl From<Vec<u8>> for Atom: the bytes up to the last non-zero one.
from_vec(vec) ==
    LET nz  == {i \in 1..Len(vec) : vec[i] # 0}
        len == IF nz = {} THEN 0 ELSE CHOOSE i \in nz : \A j \in nz : j <= i
        kept == SubSeq(vec, 1, len)
    IN  [bytes |-> kept, bit_len |-> bit_len(kept)]

\* impl From<&str> for Atom: the bytes of the string as they are.
from_str(string) == [bytes |-> string, bit_len |-> bit_len(string)]

\* uint.to_le_bytes() for an unsigned integer of `size` bytes (uint < 2^31).
to_le_bytes(uint, size) ==
    [i \in 1..size |-> IF i <= 4 THEN (uint \div Pow2(U8Bits * (i - 1))) % 256 ELSE 0]

\* atom_from_uint!: Atom::from(Vec::from(uint.to_le_bytes()))
from_uint(uint, size) == from_vec(to_le_bytes(uint, size))

\* Atom::from of a u64 (the cache index), given by its bits.
u64_to_le_bytes(x) ==
    [i \in 1..U64Bytes |->
        LET bit(k) == IF x[U8Bits * (i - 1) + k + 1] THEN Pow2(k) ELSE 0
        IN  bit(0) + bit(1) + bit(2) + bit(3) + bit(4) + bit(5) + bit(6) + bit(7)]

from_u64(x) == from_vec(u64_to_le_bytes(x))

(***************************************************************************)
(* Builder: a byte buffer and the index of the next bit.                   *)
(***************************************************************************)
\* Builder::new
builder_new == [bytes |-> <<>>, bit_idx |-> 0]

\* Builder::pos
builder_pos(b) == b.bit_idx

\* Builder::push_bit
push_bit(b, bit) ==
    LET byte_idx == b.bit_idx \div U8Bits
        bytes    == IF byte_idx = Len(b.bytes) THEN Append(b.bytes, 0) ELSE b.bytes
        shift    == b.bit_idx % U8Bits
        byte     == bytes[byte_idx + 1]
    IN  [bytes   |-> [bytes EXCEPT ![byte_idx + 1] =
                          IF bit THEN byte_set(byte, shift) ELSE byte_clear(byte, shift)],
         bit_idx |-> b.bit_idx + 1]

\* Builder::into_atom: the bit length is computed from the bytes.
into_atom(b) == [bytes |-> b.bytes, bit_len |-> bit_len(b.bytes)]

\* Pushing a sequence of bits, first to last (for bit in ... { push_bit(bit) }):
\* the first half of the pushes, then the second half on the builder they leave.
RECURSIVE push_bits(_, _)
push_bits(b, s) ==
    LET half == Len(s) \div 2
        then(pushed) ==
            IF builder_pos(b) < builder_pos(pushed)
            THEN push_bits(pushed, SubSeq(s, half + 1, Len(s)))
            ELSE pushed
    IN  IF Len(s) = 0 THEN b
        ELSE IF Len(s) = 1 THEN push_bit(b, s[1])
        ELSE then(push_bits(b, SubSeq(s, 1, half)))

(***************************************************************************)
(* Iter: the bit iterator of an atom.                                      *)
(***************************************************************************)
\* Atom::iter
iter_new == [bit_idx |-> 0, bit_mask |-> 1]

\* Iter::pos
iter_pos(it) == it.bit_idx

\* An iterator that keeps its mask on the first bit of the byte.
iter_next_fixed_mask(a, it) ==
    IF it.bit_idx = a.bit_len
    THEN [some |-> FALSE, bit |-> FALSE, it |-> it]
    ELSE LET byte_idx == it.bit_idx \div U8Bits
         IN  [some |-> TRUE,
              bit  |-> (a.bytes[byte_idx + 1] \div it.bit_mask) % 2 = 1,
              it   |-> [bit_idx |-> it.bit_idx + 1, bit_mask |-> it.bit_mask]]

\* Iterator::next: [some, bit, it]; some = FALSE is None.
iter_next(atom, it) ==
    IF it.bit_idx = atom.bit_len
    THEN [some |-> FALSE, bit |-> FALSE, it |-> it]
    ELSE LET byte_idx == it.bit_idx \div U8Bits
         IN  [some |-> TRUE,
              bit  |-> (atom.bytes[byte_idx + 1] \div it.bit_mask) % 2 = 1,
              it   |-> [bit_idx |-> it.bit_idx + 1, bit_mask |-> rotate_left1(it.bit_mask)]]

\* The iterator after k calls of next: the mask has been rotated k times.
iter_after(k) == [bit_idx |-> k, bit_mask |-> Pow2(k % U8Bits)]

\* for bit in atom.iter(): all the bits the iterator yields, in order; the
\* call that finds bit_idx = bit_len ends the loop.
atom_bits(atom) == [i \in 1..atom.bit_len |-> iter_next(atom, iter_after(i - 1)).bit]

(***************************************************************************)
(* Nouns behind pointers.  A heap is a sequence of nodes; a pointer        *)
(* (Rc<Noun>) is an index into it.  A cell's head and tail point to older  *)
(* nodes, as cells are built from existing nouns and never changed.        *)
(***************************************************************************)
\* Atom::into_noun_ptr (Rc::new(Noun::Atom(atom)))
atom_node(atom) == [tag |-> "atom", atom |-> atom, head |-> 0, tail |-> 0]

\* Cell::from([head, tail]).into_noun_ptr()
cell_node(head, tail) == [tag |-> "cell", atom |-> null, head |-> head, tail |-> tail]

(***************************************************************************)
(* The noun a pointer stands for, as a value: what Noun's PartialEq        *)
(* compares (atoms by their bytes, cells by head and tail) and what the    *)
(* derived Hash hashes.  The bit length of every atom is a function of its *)
(* bytes, so the atom record stands for its bytes.                         *)
(***************************************************************************)
RECURSIVE noun_value(_, _)
noun_value(heap, p) ==
    IF heap[p].tag = "atom"
    THEN [tag |-> "atom", atom |-> heap[p].atom, kids |-> <<>>]
    ELSE [tag |-> "cell", atom |-> null,
          kids |-> <<noun_value(heap, heap[p].head), noun_value(heap, heap[p].tail)>>]

\* The pointers a mis-keyed cache would use: the address alone.
CacheKeyByAddress(heap, p) == p

\* The key of HashMap<Rc<Noun>, u64>: Rc<T> hashes and compares as T does.
CacheKey(heap, p) == noun_value(heap, p)

(***************************************************************************)
(* jam: src/noun.rs, impl Jam for Noun.                                    *)
(***************************************************************************)
\* for _ in 0..n { bits.push_bit(bit); }
push_repeat(b, n, bit) == push_bits(b, [i \in 1..n |-> bit])

\* while len != 1 { bits.push_bit((len & 1) != 0); len >>= 1; }
\* st = [len, bits], the two variables of the loop, after at most `turns`
\* turns of it: the first half of the turns, then the rest.
RECURSIVE encode_len_turns(_, _)
encode_len_turns(st, turns) ==
    IF st.len = u64_one THEN st
    ELSE IF turns = 1
    THEN [len  |-> u64_shr1(st.len), bits |-> push_bit(st.bits, u64_low_bit(st.len))]
    ELSE encode_len_turns(encode_len_turns(st, turns \div 2), turns - (turns \div 2))

\* The loop run to its end: a non-zero u64 is 1 after fewer than 64 shifts.
encode_len_low_bits(st) == encode_len_turns(st, U64Bits - leading_zeros(st.len)).bits

\* A length prefix that also writes the most significant bit of the length.
encode_len_with_high_bit(len, bits) ==
    LET len_of_len == U64Bits - leading_zeros(len)
        prefix     == push_bit(push_repeat(bits, len_of_len, FALSE), TRUE)
    IN  IF len_of_len # 0 THEN push_bit(encode_len_low_bits([len |-> len, bits |-> prefix]), TRUE) ELSE prefix

\* fn encode_len(mut len: u64, bits: &mut AtomBuilder)
encode_len(len, bits) ==
    LET len_of_len == U64Bits - leading_zeros(len)
        prefix     == push_bit(push_repeat(bits, len_of_len, FALSE), TRUE)
    IN  IF len_of_len # 0 THEN encode_len_low_bits([len |-> len, bits |-> prefix]) ELSE prefix

\* An atom written with the length of its bytes (8 bits each) as its length.
encode_atom_byte_len(atom, bits) ==
    push_bits(encode_len(u64_from(U8Bits * Len(atom.bytes)), push_bit(bits, FALSE)),
              atom_bits(atom))

\* fn encode_atom(atom: &Atom, bits: &mut AtomBuilder)
encode_atom(atom, bits) ==
    push_bits(encode_len(u64_from(atom.bit_len), push_bit(bits, FALSE)), atom_bits(atom))

\* A back-reference that points one bit past the cached position.
encode_backref_off_by_one(idx, bits) ==
    LET idx_atom == from_u64(u64_from(idx + 1))
    IN  push_bits(encode_len(u64_from(idx_atom.bit_len), push_bit(push_bit(bits, TRUE), TRUE)),
                  atom_bits(idx_atom))

\* The back-reference written for cache position idx (noun.rs 150-158).
encode_backref(idx, bits) ==
    LET idx_atom == from_u64(u64_from(idx))
    IN  push_bits(encode_len(u64_from(idx_atom.bit_len), push_bit(push_bit(bits, TRUE), TRUE)),
                  atom_bits(idx_atom))

\* A repeated atom is written inline when its length is at most the index itself.
InlinePolicyByIndex(atom, idx) == atom.bit_len <= idx

\* A repeated atom is written inline when it is strictly shorter than its index.
InlinePolicyStrict(atom, idx) ==
    atom.bit_len < U64Bits - leading_zeros(u64_from(idx))

\* if atom_bit_len <= idx_bit_len (noun.rs 141-145)
InlinePolicy(atom, idx) ==
    LET idx_bit_len  == U64Bits - leading_zeros(u64_from(idx))
        atom_bit_len == atom.bit_len
    IN  atom_bit_len <= idx_bit_len

\* fn encode(noun: Rc<Noun>, bits: &mut AtomBuilder, cache: &mut HashMap<Rc<Noun>, u64>)
\* st = [bits, cache, log]; the result is the state after the call.  log
\* keeps every cache.insert in order, the key and the position inserted.
RECURSIVE encode(_, _, _)
encode(heap, noun, st) ==
    LET key == CacheKey(heap, noun)
    IN  IF key \in DOMAIN st.cache
        THEN LET idx == st.cache[key]
             IN  IF heap[noun].tag = "atom" /\ InlinePolicy(heap[noun].atom, idx)
                 THEN [st EXCEPT !.bits = encode_atom(heap[noun].atom, st.bits)]
                 ELSE [st EXCEPT !.bits = encode_backref(idx, st.bits)]
        ELSE LET st1 == [st EXCEPT !.cache = (key :> builder_pos(st.bits)) @@ st.cache,
                                   !.log = Append(@, [noun |-> key,
                                                      pos  |-> builder_pos(st.bits)])]
             IN  IF heap[noun].tag = "atom"
                 THEN [st1 EXCEPT !.bits = encode_atom(heap[noun].atom, st1.bits)]
                 ELSE LET tagged == [st1 EXCEPT !.bits = push_bit(push_bit(st1.bits, TRUE), FALSE)]
                      IN  encode(heap, heap[noun].tail, encode(heap, heap[noun].head, tagged))

\* The encoder's state when jam starts: an empty builder and an empty cache.
encode_start == [bits |-> builder_new, cache |-> <<>>, log |-> <<>>]

\* fn jam(self) -> Atom, as the encoder's final state; the atom is into_atom of its bits.
jam_state(heap, noun) == encode(heap, noun, encode_start)

jam(heap, noun) == into_atom(jam_state(heap, noun).bits)

(***************************************************************************)
(* cue: src/noun.rs, impl Cue for Noun.                                    *)
(*                                                                         *)
(* A result is a record with kind "ok", "err" (an Err value returned to    *)
(* the caller, its variant in err) or "panic" (the thread panics; msg in   *)
(* err).  checks = TRUE is a build with overflow checks (debug), FALSE one *)
(* without (release).                                                      *)
(***************************************************************************)
\* loop { match bits.next() { Some(true) => break, Some(false) => len_of_len += 1, None => Err } }
\* z = [going, some, len_of_len, it] after at most `turns` turns of the loop;
\* going = FALSE once the loop has been left, some = FALSE when by None.
RECURSIVE read_len_of_len_turns(_, _, _)
read_len_of_len_turns(src, z, turns) ==
    LET match_next(r) ==
            IF ~r.some
            THEN [going |-> FALSE, some |-> FALSE, len_of_len |-> z.len_of_len, it |-> r.it]
            ELSE IF r.bit
            THEN [going |-> FALSE, some |-> TRUE, len_of_len |-> z.len_of_len, it |-> r.it]
            ELSE [going |-> TRUE, some |-> TRUE, len_of_len |-> z.len_of_len + 1, it |-> r.it]
    IN  IF ~z.going THEN z
        ELSE IF turns = 1 THEN match_next(iter_next(src, z.it))
        ELSE read_len_of_len_turns(src, read_len_of_len_turns(src, z, turns \div 2),
                                   turns - (turns \div 2))

\* The loop run to its end: next returns None after the last bit of the atom.
read_len_of_len(src, it, len_of_len) ==
    read_len_of_len_turns(src,
                          [going |-> TRUE, some |-> TRUE, len_of_len |-> len_of_len, it |-> it],
                          (src.bit_len - iter_pos(it)) + 1)

\* for i in 0..len_bits { match bits.next() { Some(true) => len |= 1 << i, ... } }
\* st = [kind, err, it, len] with the iterator and the length register; the
\* turns i .. len_bits - 1 of the loop, the first half of them and then the rest.
RECURSIVE read_len_bits(_, _, _, _, _)
read_len_bits(src, st, i, len_bits, checks) ==
    LET match_next(r) ==
            IF ~r.some THEN [kind |-> "err", err |-> "InvalidLen", it |-> r.it, len |-> st.len]
            ELSE IF shl_overflows(i) /\ checks
            THEN [kind |-> "panic", err |-> "attempt to shift left with overflow",
                  it |-> r.it, len |-> st.len]
            ELSE [kind |-> "ok", err |-> "", it |-> r.it,
                  len |-> IF r.bit THEN u64_or(st.len, wrapping_shl_one(i))
                                   ELSE u64_and_not(st.len, wrapping_shl_one(i))]
    IN  IF st.kind # "ok" \/ i >= len_bits THEN st
        ELSE IF i + 1 = len_bits THEN match_next(iter_next(src, st.it))
        ELSE read_len_bits(src, read_len_bits(src, st, i, (i + len_bits) \div 2, checks),
                           (i + len_bits) \div 2, len_bits, checks)

\* The block `let len = { ... };` of decode_atom (noun.rs 22-47).
decode_len(src, it, checks) ==
    LET after_loop(z) ==
            IF ~z.some
            THEN [kind |-> "err", err |-> "InvalidLen", it |-> z.it, len |-> u64_zero]
            ELSE IF z.len_of_len = 0
            THEN [kind |-> "ok", err |-> "", it |-> z.it, len |-> u64_zero]
            ELSE LET len_bits == z.len_of_len - 1
                 IN  IF shl_overflows(len_bits) /\ checks
                     THEN [kind |-> "panic", err |-> "attempt to shift left with overflow",
                           it |-> z.it, len |-> u64_zero]
                     ELSE read_len_bits(src,
                                        [kind |-> "ok", err |-> "", it |-> z.it,
                                         len |-> wrapping_shl_one(len_bits)],
                                        0, len_bits, checks)
    IN  after_loop(read_len_of_len(src, it, 0))

\* for _ in 0..len { let bit = bits.next().ok_or(AtomConstruction)?; atom_builder.push_bit(bit); }
\* st = [kind, err, it, b] with the iterator and the atom builder; the turns
\* k .. end - 1 of the loop, the first half of them and then the rest.
RECURSIVE read_payload_turns(_, _, _, _)
read_payload_turns(src, st, k, end) ==
    LET match_next(r) ==
            IF ~r.some
            THEN [kind |-> "err", err |-> "AtomConstruction", it |-> r.it, b |-> st.b]
            ELSE [kind |-> "ok", err |-> "", it |-> r.it, b |-> push_bit(st.b, r.bit)]
    IN  IF st.kind # "ok" \/ k >= end THEN st
        ELSE IF k + 1 = end THEN match_next(iter_next(src, st.it))
        ELSE read_payload_turns(src, read_payload_turns(src, st, k, (k + end) \div 2),
                                (k + end) \div 2, end)

\* The loop from turn k on: a length beyond the bits of the atom meets None
\* within src.bit_len + 1 turns.
read_payload(src, st, k, len) ==
    read_payload_turns(src, [kind |-> "ok", err |-> "", it |-> st.it, b |-> st.b], k,
                       IF counter_below(src.bit_len, len) THEN src.bit_len + 1
                       ELSE u64_small_value(len))

\* fn decode_atom(bits: &mut atom::Iter) -> serdes::Result<Atom>
decode_atom(src, it, checks) ==
    LET built(p) == [kind |-> p.kind, err |-> p.err, it |-> p.it, atom |-> into_atom(p.b)]
        with_len(l) ==
            IF l.kind # "ok" THEN [kind |-> l.kind, err |-> l.err, it |-> l.it, atom |-> null]
            ELSE IF l.len = u64_zero
            THEN [kind |-> "ok", err |-> "", it |-> l.it, atom |-> from_uint(0, 1)]
            ELSE built(read_payload(src, [it |-> l.it, b |-> builder_new], 0, l.len))
    IN  with_len(decode_len(src, it, checks))

\* atom_as_uint!(self, u64): None when the atom has more bytes than a u64.
as_u64(atom) ==
    IF Len(atom.bytes) <= U64Bytes
    THEN [some |-> TRUE,
          value |-> [i \in 1..U64Bits |->
                        LET byte_idx == (i - 1) \div U8Bits
                        IN  IF byte_idx < Len(atom.bytes)
                            THEN byte_bit(atom.bytes[byte_idx + 1], (i - 1) % U8Bits)
                            ELSE FALSE]]
    ELSE [some |-> FALSE, value |-> u64_zero]

\* cache.get(&idx) on HashMap<u64, Rc<Noun>>, whose keys are stream positions.
cache_has(cache, idx) == u64_is_small(idx) /\ u64_small_value(idx) \in DOMAIN cache

\* A lookup that returns the noun entered last, whatever the index.
cache_get_newest(cache, idx) ==
    cache[CHOOSE p \in DOMAIN cache : \A q \in DOMAIN cache : q <= p]

cache_get(cache, idx) == cache[u64_small_value(idx)]

\* A decode result.  st = [it, cache, heap, log, calls]; noun is the pointer
\* returned.  log keeps every cache.insert in order, calls the position of the
\* iterator at every call of decode.
Ok(st, noun) == [kind |-> "ok", err |-> "", st |-> st, noun |-> noun]

Err(err, st) == [kind |-> "err", err |-> err, st |-> st, noun |-> 0]

Panic(msg, st) == [kind |-> "panic", err |-> msg, st |-> st, noun |-> 0]

\* Rc::new: the node is put at a fresh address.
alloc(st, node) == [st EXCEPT !.heap = Append(st.heap, node)]

\* An insert that keeps the new entry only.
cache_insert_alone(st, pos, noun) ==
    [st EXCEPT !.cache = (pos :> noun),
               !.log = Append(@, [pos |-> pos, noun |-> noun])]

\* cache.insert(pos, noun.clone())
cache_insert(st, pos, noun) ==
    [st EXCEPT !.cache = (pos :> noun) @@ st.cache,
               !.log = Append(@, [pos |-> pos, noun |-> noun])]

\* A decoder that allocates a cell and enters it into the cache at its tag
\* position before it decodes the head and the tail.
RECURSIVE decode_cell_first(_, _, _)
decode_cell_first(src, entered, checks) ==
    LET st  == [entered EXCEPT !.calls = Append(@, iter_pos(entered.it))]
        pos == iter_pos(st.it)
        back_reference(a) ==
            LET st1 == [st EXCEPT !.it = a.it]
            IN  IF a.kind = "panic" THEN Panic(a.err, st1)
                ELSE IF a.kind = "err" THEN Err(a.err, st1)
                ELSE IF ~as_u64(a.atom).some THEN Err("InvalidBackref", st1)
                ELSE IF ~cache_has(st1.cache, as_u64(a.atom).value) THEN Err("CacheMiss", st1)
                ELSE Ok(st1, cache_get(st1.cache, as_u64(a.atom).value))
        cell_built(c, head, tail, st4) ==
            Ok([st4 EXCEPT !.heap[c] = cell_node(head.noun, tail.noun)], c)
        with_tail(c, head, tail_pos, tail) ==
            IF tail.kind # "ok" THEN tail
            ELSE cell_built(c, head, tail, cache_insert(tail.st, tail_pos, tail.noun))
        decode_tail(c, head, st2) ==
            with_tail(c, head, iter_pos(st2.it), decode_cell_first(src, st2, checks))
        with_head(c, head_pos, head) ==
            IF head.kind # "ok" THEN head
            ELSE decode_tail(c, head, cache_insert(head.st, head_pos, head.noun))
        cell_entered(st1) ==
            with_head(Len(st1.heap), iter_pos(st1.it),
                      decode_cell_first(src, cache_insert(st1, pos, Len(st1.heap)), checks))
        atom_built(st2) == Ok(cache_insert(st2, pos, Len(st2.heap)), Len(st2.heap))
        atom_tag(a) ==
            IF a.kind = "panic" THEN Panic(a.err, [st EXCEPT !.it = a.it])
            ELSE IF a.kind = "err" THEN Err(a.err, [st EXCEPT !.it = a.it])
            ELSE atom_built(alloc([st EXCEPT !.it = a.it], atom_node(a.atom)))
        second_tag(tag2) ==
            IF ~tag2.some THEN Err("InvalidTag", [st EXCEPT !.it = tag2.it])
            ELSE IF tag2.bit THEN back_reference(decode_atom(src, tag2.it, checks))
            ELSE cell_entered(alloc([st EXCEPT !.it = tag2.it], cell_node(0, 0)))
        first_tag(tag1) ==
            IF ~tag1.some THEN Panic("not implemented", st)
            ELSE IF tag1.bit THEN second_tag(iter_next(src, tag1.it))
            ELSE atom_tag(decode_atom(src, tag1.it, checks))
    IN  first_tag(iter_next(src, st.it))

\* fn decode(bits: &mut atom::Iter, cache: &mut HashMap<u64, Rc<Noun>>)
RECURSIVE decode(_, _, _)
decode(src, entered, checks) ==
    LET st  == [entered EXCEPT !.calls = Append(@, iter_pos(entered.it))]
        pos == iter_pos(st.it)
        \* Back reference tag = 0b11: a is decode_atom(bits).
        back_reference(a) ==
            LET st1 == [st EXCEPT !.it = a.it]
            IN  IF a.kind = "panic" THEN Panic(a.err, st1)
                ELSE IF a.kind = "err" THEN Err(a.err, st1)
                ELSE IF ~as_u64(a.atom).some THEN Err("InvalidBackref", st1)
                ELSE IF ~cache_has(st1.cache, as_u64(a.atom).value) THEN Err("CacheMiss", st1)
                ELSE Ok(st1, cache_get(st1.cache, as_u64(a.atom).value))
        \* Cell tag = 0b01: head and tail are the results of the two decode calls.
        cell_built(st4) == Ok(st4, Len(st4.heap))
        with_tail(head, tail_pos, tail) ==
            IF tail.kind # "ok" THEN tail
            ELSE cell_built(alloc(cache_insert(tail.st, tail_pos, tail.noun),
                                  cell_node(head.noun, tail.noun)))
        decode_tail(head, st2) == with_tail(head, iter_pos(st2.it), decode(src, st2, checks))
        with_head(head_pos, head) ==
            IF head.kind # "ok" THEN head
            ELSE decode_tail(head, cache_insert(head.st, head_pos, head.noun))
        \* Atom tag = 0b0: a is decode_atom(bits).
        atom_built(st2) == Ok(cache_insert(st2, pos, Len(st2.heap)), Len(st2.heap))
        atom_tag(a) ==
            IF a.kind = "panic" THEN Panic(a.err, [st EXCEPT !.it = a.it])
            ELSE IF a.kind = "err" THEN Err(a.err, [st EXCEPT !.it = a.it])
            ELSE atom_built(alloc([st EXCEPT !.it = a.it], atom_node(a.atom)))
        second_tag(tag2) ==
            IF ~tag2.some THEN Err("InvalidTag", [st EXCEPT !.it = tag2.it])
            ELSE IF tag2.bit THEN back_reference(decode_atom(src, tag2.it, checks))
            ELSE with_head(iter_pos(tag2.it), decode(src, [st EXCEPT !.it = tag2.it], checks))
        first_tag(tag1) ==
            IF ~tag1.some THEN Panic("not implemented", st)
            ELSE IF tag1.bit THEN second_tag(iter_next(src, tag1.it))
            ELSE atom_tag(decode_atom(src, tag1.it, checks))
    IN  first_tag(iter_next(src, st.it))

\* The decoder's state when cue starts.
decode_start == [it |-> iter_new, cache |-> <<>>, heap |-> <<>>, log |-> <<>>, calls |-> <<>>]

\* Rc::strong_count of a node once the cache is dropped: the local variable
\* and every cell field that points to it.
strong_count(heap, p) ==
    1 + Cardinality({i \in 1..Len(heap) : heap[i].tag = "cell" /\ heap[i].head = p})
      + Cardinality({i \in 1..Len(heap) : heap[i].tag = "cell" /\ heap[i].tail = p})

\* fn cue(jammed_noun: Atom) -> serdes::Result<Self>
cue(jammed_noun, checks) ==
    LET try_unwrap(r) ==
            IF r.kind = "ok" /\ strong_count(r.st.heap, r.noun) # 1
            THEN Panic("unwrap on Err: more than one strong reference", r.st)
            ELSE r
    IN  try_unwrap(decode(jammed_noun, decode_start, checks))

(***************************************************************************)
(* cue: src/serdes.rs, trait Cue, the decoder over a bit reader.           *)
(*                                                                         *)
(* The source is the sequence of bits the reader yields and `at` the       *)
(* number of bits read so far.  Atoms are byte vectors as read (VecAtom).  *)
(* A result is [kind, err, st, noun, bits_read] with st = [at, cache,      *)
(* heap, log, calls]; Err(()) is kind "err" with err "()".                 *)
(***************************************************************************)
\* Atom::as_bits: BitReader::new(self.as_bytes()), little-endian.
as_bits(bytes) ==
    [i \in 1..(U8Bits * Len(bytes)) |->
        byte_bit(bytes[((i - 1) \div U8Bits) + 1], (i - 1) % U8Bits)]

\* src.read_bit(): Err at the end of the source.
read_bit(src, at) ==
    IF at < Len(src)
    THEN [ok |-> TRUE, bit |-> src[at + 1], at |-> at + 1]
    ELSE [ok |-> FALSE, bit |-> FALSE, at |-> at]

\* src.read_unary1(): the number of 0 bits before the next 1 bit, which is
\* read as well; Err when the source ends before a 1 bit.
read_unary1(src, at) ==
    LET ones == {i \in (at + 1)..Len(src) : src[i]}
        stop == CHOOSE i \in ones : \A j \in ones : i <= j
    IN  IF ones = {}
        THEN [ok |-> FALSE, value |-> Len(src) - at, at |-> Len(src)]
        ELSE [ok |-> TRUE, value |-> stop - at - 1, at |-> stop]

\* src.read(bits): the next bits, lowest first; Err when the source is shorter.
read(src, at, bits) ==
    IF at + bits <= Len(src)
    THEN [ok |-> TRUE, value |-> SubSeq(src, at + 1, at + bits), at |-> at + bits]
    ELSE [ok |-> FALSE, value |-> <<>>, at |-> at]

\* The u8 whose low bits are the given ones.
u8_of_bits(bits) ==
    LET bit(k) == IF k < Len(bits) /\ bits[k + 1] THEN Pow2(k) ELSE 0
    IN  bit(0) + bit(1) + bit(2) + bit(3) + bit(4) + bit(5) + bit(6) + bit(7)

\* impl From<Vec<u8>> for VecAtom: the bytes as they are.
vec_atom(val) == [bytes |-> val, bit_len |-> bit_len(val)]

\* fn decode_len(src: &mut impl BitRead) -> CueResult<u64>
serdes_decode_len(src, at) ==
    LET with_len(len_bits, r) ==
            IF ~r.ok
            THEN [kind |-> "panic", err |-> "read length", at |-> r.at,
                  len |-> u64_zero, bits_read |-> 0]
            ELSE [kind |-> "ok", err |-> "", at |-> r.at,
                  len |-> [i \in 1..U64Bits |->
                              (i <= len_bits /\ r.value[i]) \/ i = len_bits + 1],
                  bits_read |-> (len_bits + 1) + 1 + len_bits]
        with_len_of_len(u) ==
            IF ~u.ok
            THEN [kind |-> "panic", err |-> "read bit length of length", at |-> u.at,
                  len |-> u64_zero, bits_read |-> 0]
            ELSE IF u.value >= U64Bits
            THEN [kind |-> "panic", err |-> "not yet implemented: too large", at |-> u.at,
                  len |-> u64_zero, bits_read |-> 0]
            ELSE IF u.value = 0
            THEN [kind |-> "ok", err |-> "", at |-> u.at, len |-> u64_zero, bits_read |-> 1]
            ELSE with_len(u.value - 1, read(src, u.at, u.value - 1))
    IN  with_len_of_len(read_unary1(src, at))

\* while bit_len > 8 { val.push(src.read(8)) }; val.push(src.read(bit_len))
serdes_read_chunks(src, at, len) ==
    LET whole == (len - 1) \div U8Bits
    IN  [i \in 1..(whole + 1) |->
            u8_of_bits(SubSeq(src, at + U8Bits * (i - 1) + 1,
                              IF i <= whole THEN at + U8Bits * i ELSE at + len))]

\* fn decode_atom(src, cache: Option<..>, pos: Option<u64>) -> CueResult<Rc<Self>>
\* A length the source cannot supply ends in the panic of a failed read or of
\* the allocation before it.
serdes_decode_atom(src, st, cached, pos) ==
    LET built(st1, bits_read) ==
            [kind |-> "ok", err |-> "",
             st |-> IF cached THEN cache_insert(st1, pos, Len(st1.heap)) ELSE st1,
             noun |-> Len(st1.heap), bits_read |-> bits_read]
        with_bit_len(l, len) ==
            built(alloc([st EXCEPT !.at = l.at + len],
                        atom_node(IF len = 0 THEN vec_atom(to_le_bytes(0, 1))
                                  ELSE vec_atom(serdes_read_chunks(src, l.at, len)))),
                  l.bits_read + len)
        with_len(l) ==
            IF l.kind # "ok"
            THEN [kind |-> l.kind, err |-> l.err, st |-> [st EXCEPT !.at = l.at], noun |-> 0,
                  bits_read |-> 0]
            ELSE IF ~u64_is_small(l.len) \/ l.at + u64_small_value(l.len) > Len(src)
            THEN [kind |-> "panic", err |-> "read chunk", st |-> [st EXCEPT !.at = l.at],
                  noun |-> 0, bits_read |-> 0]
            ELSE with_bit_len(l, u64_small_value(l.len))
    IN  with_len(serdes_decode_len(src, st.at))

\* fn decode_backref(src, cache) -> CueResult<Rc<Self>>
serdes_decode_backref(src, st) ==
    LET with_idx(a, bytes, idx) ==
            IF Len(bytes) > U64Bytes
            THEN [a EXCEPT !.kind = "panic",
                           !.err = "not yet implemented: idx is larger than 8 bytes",
                           !.noun = 0]
            ELSE IF cache_has(a.st.cache, idx)
            THEN [a EXCEPT !.noun = cache_get(a.st.cache, idx)]
            ELSE [a EXCEPT !.kind = "err", !.err = "()", !.noun = 0]
        with_atom(a) ==
            IF a.kind # "ok" THEN a
            ELSE with_idx(a, a.st.heap[a.noun].atom.bytes, as_u64(a.st.heap[a.noun].atom).value)
    IN  with_atom(serdes_decode_atom(src, st, FALSE, 0))

RECURSIVE serdes_decode(_, _, _)

\* fn decode_cell(src, cache, mut pos: u64) -> CueResult<Rc<Self>>
serdes_decode_cell(src, st, pos) ==
    LET cell_built(st3, bits_read) ==
            [kind |-> "ok", err |-> "", st |-> st3, noun |-> Len(st3.heap),
             bits_read |-> bits_read]
        with_tail(head, tail_pos, tail) ==
            IF tail.kind # "ok" THEN tail
            ELSE cell_built(alloc(cache_insert(tail.st, tail_pos, tail.noun),
                                  cell_node(head.noun, tail.noun)),
                            head.bits_read + tail.bits_read)
        with_head(head) ==
            IF head.kind # "ok" THEN head
            ELSE with_tail(head, pos + head.bits_read,
                           serdes_decode(src, cache_insert(head.st, pos, head.noun),
                                         pos + head.bits_read))
    IN  with_head(serdes_decode(src, st, pos))

\* fn decode(src, cache, pos: u64) -> CueResult<Rc<Self>>
serdes_decode(src, entered, pos) ==
    LET st == [entered EXCEPT !.calls = Append(@, entered.at)]
        backref_read(TAG_LEN, r) ==
            IF r.kind # "ok" THEN r ELSE [r EXCEPT !.bits_read = TAG_LEN + r.bits_read]
        cell_read(TAG_LEN, r) ==
            IF r.kind # "ok" THEN r
            ELSE [r EXCEPT !.st = cache_insert(r.st, pos, r.noun),
                           !.bits_read = TAG_LEN + r.bits_read]
        atom_read(TAG_LEN, r) ==
            IF r.kind # "ok" THEN r ELSE [r EXCEPT !.bits_read = TAG_LEN + r.bits_read]
        second_tag(TAG_LEN, tag2) ==
            IF ~tag2.ok
            THEN [kind |-> "panic", err |-> "not yet implemented: IO error",
                  st |-> st, noun |-> 0, bits_read |-> 0]
            ELSE IF tag2.bit
            THEN backref_read(TAG_LEN, serdes_decode_backref(src, [st EXCEPT !.at = tag2.at]))
            ELSE cell_read(TAG_LEN, serdes_decode_cell(src, [st EXCEPT !.at = tag2.at],
                                                       pos + TAG_LEN))
        first_tag(tag1) ==
            IF ~tag1.ok
            THEN [kind |-> "panic",
                  err |-> "not yet implemented: I think this is when it's time to exit",
                  st |-> st, noun |-> 0, bits_read |-> 0]
            ELSE IF tag1.bit THEN second_tag(2, read_bit(src, tag1.at))
            ELSE atom_read(1, serdes_decode_atom(src, [st EXCEPT !.at = tag1.at], TRUE, pos))
    IN  first_tag(read_bit(src, st.at))

\* The decoder's state when the trait's cue starts.
serdes_decode_start == [at |-> 0, cache |-> <<>>, heap |-> <<>>, log |-> <<>>, calls |-> <<>>]

\* fn cue(mut src: impl BitRead) -> Result<Self, ()>
serdes_cue(src) ==
    LET try_unwrap(r) ==
            IF r.kind = "ok" /\ strong_count(r.st.heap, r.noun) # 1
            THEN [r EXCEPT !.kind = "panic",
                           !.err = "unwrap on Err: more than one strong reference",
                           !.noun = 0]
            ELSE r
    IN  try_unwrap(serdes_decode(src, serdes_decode_start, 0))

(***************************************************************************)
(* jam: src/serdes.rs, trait Jam, the encoder over a bit writer.           *)
(*                                                                         *)
(* dst is the sequence of bits written so far.  A result is [st,           *)
(* bits_written] with st = [dst, cache, calls]; calls keeps, for every     *)
(* call of encode that has returned, its noun, its pos argument, the       *)
(* number of bits written before it, those it wrote and the count it       *)
(* returned.                                                               *)
(***************************************************************************)
\* Tag::write: the tag, lowest bit first, and its length.
tag_write(dst, tag) ==
    [dst     |-> dst \o (IF tag = "Atom" THEN <<FALSE>>
                         ELSE IF tag = "Cell" THEN <<TRUE, FALSE>>
                         ELSE <<TRUE, TRUE>>),
     tag_len |-> IF tag = "Atom" THEN 1 ELSE 2]

\* fn encode_len(len: u64, dst: &mut impl BitWrite) -> JamResult<()>
serdes_encode_len(len, dst) ==
    LET len_of_len == U64Bits - leading_zeros(len)
        unary      == dst \o [i \in 1..len_of_len |-> FALSE] \o <<TRUE>>
        len_bits   == len_of_len - 1
    IN  IF len_of_len = 0 THEN [dst |-> unary, bits_written |-> 1]
        ELSE [dst          |-> unary \o [i \in 1..len_bits |-> len[i]],
              bits_written |-> len_of_len + 1 + len_bits]

\* fn encode_atom(atom: &A, dst: &mut impl BitWrite) -> JamResult<()>
serdes_encode_atom(atom, dst) ==
    LET bytes == atom.bytes
        last_byte == bytes[Len(bytes)]
        payload ==
            IF bytes = <<>> THEN <<>>
            ELSE as_bits(SubSeq(bytes, 1, Len(bytes) - 1))
                     \o [k \in 1..(U8Bits - u8_leading_zeros(last_byte)) |->
                            byte_bit(last_byte, k - 1)]
        with_len(l) ==
            [dst |-> l.dst \o payload, bits_written |-> l.bits_written + bit_len(bytes)]
    IN  with_len(serdes_encode_len(u64_from(bit_len(bytes)), dst))

\* fn encode_backref(idx: u64, noun: &Self, dst: &mut impl BitWrite) -> JamResult<()>
serdes_encode_backref(idx, node, dst) ==
    LET idx_bit_len == U64Bits - leading_zeros(u64_from(idx))
        written(tag_len, r) == [dst |-> r.dst, bits_written |-> tag_len + r.bits_written]
        tagged(t, atom) == written(t.tag_len, serdes_encode_atom(atom, t.dst))
    IN  IF node.tag = "atom" /\ bit_len(node.atom.bytes) <= idx_bit_len
        THEN tagged(tag_write(dst, "Atom"), node.atom)
        ELSE tagged(tag_write(dst, "BackRef"), from_u64(u64_from(idx)))

RECURSIVE serdes_encode(_, _, _, _)

\* fn encode_cell(cell: &'a C, dst, cache, pos: u64) -> JamResult<()>
serdes_encode_cell(heap, cell, st, pos) ==
    LET with_tail(head, tail) ==
            [st |-> tail.st, bits_written |-> head.bits_written + tail.bits_written]
        with_head(head) ==
            with_tail(head, serdes_encode(heap, heap[cell].tail, head.st,
                                          pos + head.bits_written))
    IN  with_head(serdes_encode(heap, heap[cell].head, st, pos))

\* fn encode(noun: &'a Self, dst, cache: &mut HashMap<&'a Self, u64>, pos: u64)
serdes_encode(heap, noun, st, pos) ==
    LET key == CacheKey(heap, noun)
        returned(r) ==
            [st |-> [r.st EXCEPT !.calls =
                        Append(@, [noun   |-> key,
                                   pos    |-> pos,
                                   before |-> Len(st.dst),
                                   wrote  |-> Len(r.st.dst) - Len(st.dst),
                                   ret    |-> r.bits_written])],
             bits_written |-> r.bits_written]
        leaf(r) == [st |-> [st EXCEPT !.dst = r.dst], bits_written |-> r.bits_written]
        inserted == [st EXCEPT !.cache = (key :> pos) @@ st.cache]
        atom_written(t, r) ==
            [st |-> [inserted EXCEPT !.dst = r.dst], bits_written |-> t.tag_len + r.bits_written]
        atom_tagged(t) == atom_written(t, serdes_encode_atom(heap[noun].atom, t.dst))
        cell_tagged(t) ==
            serdes_encode_cell(heap, noun, [inserted EXCEPT !.dst = t.dst], pos + t.tag_len)
    IN  IF key \in DOMAIN st.cache
        THEN returned(leaf(serdes_encode_backref(st.cache[key], heap[noun], st.dst)))
        ELSE IF heap[noun].tag = "atom"
        THEN returned(atom_tagged(tag_write(st.dst, "Atom")))
        ELSE returned(cell_tagged(tag_write(st.dst, "Cell")))

\* The encoder's state when the trait's jam starts.
serdes_encode_start == [dst |-> <<>>, cache |-> <<>>, calls |-> <<>>]

\* fn jam(&'a self) -> Result<Vec<u8>, ()>: the bits are padded to whole bytes
\* and a last byte that is 0 is popped.  The result is [st, vec].
serdes_jam(heap, noun) ==
    LET aligned(dst) ==
            LET byte_len == (Len(dst) + U8Bits - 1) \div U8Bits
            IN  [j \in 1..byte_len |->
                    u8_of_bits(SubSeq(dst, U8Bits * (j - 1) + 1,
                                      IF U8Bits * j < Len(dst) THEN U8Bits * j ELSE Len(dst)))]
        popped(vec) ==
            IF vec # <<>> /\ vec[Len(vec)] = 0 THEN SubSeq(vec, 1, Len(vec) - 1) ELSE vec
        finished(r) == [st |-> r.st, vec |-> popped(aligned(r.st.dst))]
    IN  finished(serdes_encode(heap, noun, serdes_encode_start, 0))

(***************************************************************************)
(* The state.                                                              *)
(*   heap    the nouns the caller has built (Rc<Noun> nodes)               *)
(*   phase   "build", "jammed", "extended", "truncated", "stream", "cued", *)
(*           "serdes_cued", "len", "len_written", "len_read"               *)
(*   enc     the encoder's builder and cache when jam returned             *)
(*   jammed  the atom handed to cue                                        *)
(*   extra   the bits the caller appended to jam's output                  *)
(*   kept    how many bits of jam's output the caller kept                 *)
(*   cued    the result of cue                                             *)
(*   len_in  the length given to encode_len, len_out what was read back    *)
(*   axis    the axis given to get, got what get returned                  *)
(*   made    how the atom under test was made: the constructor, its input  *)
(*   atom    the atom under test                                           *)
(*   bld     a Builder, pushed the bits pushed onto it so far              *)
(*   it      an iterator over atom, yielded the bits it has yielded, last  *)
(*           what next returned last, nexts the number of calls of next    *)
(*   again   Atom::from of the bytes of atom                               *)
(*   conv    the width and the result of the last as_u8 .. as_usize        *)
(*   cell    the cell under test (a pointer), elems the array it was made  *)
(*           from, listed the length asked of as_list and what it returned *)
(*   conv_iter  the elements given to convert!(iter => Noun)               *)
(*   conv_noun  the noun under conversion and how it was made              *)
(*   conv_vec   what convert!(&noun => Vec<String>) returned               *)
(*   wrote   the encoder's state and the bytes when the trait's jam        *)
(*           returned                                                      *)
(***************************************************************************)
VARIABLES heap, phase, enc, jammed, extra, kept, cued, len_in, len_out
VARIABLES axis, got
VARIABLES made, atom, bld, pushed, it, yielded, last, nexts, again, conv
VARIABLES cell, elems, listed
VARIABLES conv_iter, conv_noun, conv_vec
VARIABLES wrote

\* The variables of the codec, and those of the rest of the library.
codec_vars == <<enc, jammed, extra, kept, cued, len_in, len_out>>

get_vars == <<axis, got>>

atom_vars == <<made, atom, bld, pushed, it, yielded, last, nexts, again, conv>>

cell_vars == <<cell, elems, listed>>

convert_vars == <<conv_iter, conv_noun, conv_vec>>

writer_vars == <<wrote>>

lib_vars == <<get_vars, atom_vars, cell_vars, convert_vars, writer_vars>>

vars == <<heap, phase, codec_vars, lib_vars>>

\* Bounds of the model.
MaxNodes == 3

\* The atoms the caller builds nouns from: 0, 1, 2, 19 (Atom::from(u8)) and
\* the text "\x01\0" (Atom::from(&str)).
AtomPool ==
    << from_uint(0, 1), from_uint(1, 1), from_uint(2, 1), from_uint(19, 1),
       from_str(<<1, 0>>) >>

\* The nouns of tests::jam_cue_atom and tests::jam_cue_cell (noun.rs 207-299).
U8Node(v) == atom_node(from_uint(v, 1))

U16Node(v) == atom_node(from_uint(v, 2))

TestHeaps ==
    { <<U8Node(0)>>, <<U8Node(1)>>, <<U8Node(2)>>, <<U8Node(19)>>,
      <<U8Node(0), U8Node(19), cell_node(1, 2)>>,
      <<U8Node(1), U8Node(1), cell_node(1, 2)>>,
      <<U16Node(10000), U16Node(10000), cell_node(1, 2)>>,
      <<U16Node(222), U16Node(444), U16Node(888), cell_node(2, 3), cell_node(1, 4)>>,
      <<U8Node(107), U8Node(110), cell_node(1, 2), cell_node(3, 3)>> }

\* The bits a caller appends after jam's output.
Extras == { <<TRUE>>, <<FALSE, TRUE>>, <<TRUE, TRUE>>, <<TRUE, FALSE, TRUE>> }

NoResult == [kind |-> "none", err |-> "", st |-> decode_start, noun |-> 0]

NoLen == [kind |-> "none", err |-> "", it |-> iter_new, len |-> u64_zero]

\* Option<&Noun>: None, and Some of a pointer.
None == [some |-> FALSE, noun |-> 0]

Some(noun) == [some |-> TRUE, noun |-> noun]

\* Option<bool> and Option<uN>, the integer as its little-endian bytes.
NoBit == [some |-> FALSE, bit |-> FALSE]

NoUint == [some |-> FALSE, bytes |-> <<>>]

AtomIdle ==
    /\ made = [by |-> "", from |-> <<>>]
    /\ atom = null
    /\ bld = builder_new
    /\ pushed = <<>>
    /\ it = iter_new
    /\ yielded = <<>>
    /\ last = NoBit
    /\ nexts = 0
    /\ again = null
    /\ conv = [width |-> 0, ret |-> NoUint]

GetIdle ==
    /\ axis = 0
    /\ got = None

\* Option<[Rc<Noun>; N]>: None, and Some of the pointers.
NoList == [some |-> FALSE, nouns |-> <<>>]

CellIdle ==
    /\ cell = 0
    /\ elems = <<>>
    /\ listed = [N |-> 0, ret |-> NoList]

\* Result<Vec<String>, Error> before any conversion: no value yet.
NoVec == [ok |-> FALSE, elems |-> <<>>, err |-> "none"]

ConvertIdle ==
    /\ conv_iter = <<>>
    /\ conv_noun = [by |-> "none", ok |-> FALSE, noun |-> 0]
    /\ conv_vec = NoVec

WriterIdle == wrote = [st |-> serdes_encode_start, vec |-> <<>>]

LibIdle == GetIdle /\ AtomIdle /\ CellIdle /\ ConvertIdle /\ WriterIdle

Idle ==
    /\ LibIdle
    /\ enc = encode_start
    /\ jammed = null
    /\ extra = <<>>
    /\ kept = 0
    /\ cued = NoResult
    /\ len_in = u64_zero
    /\ len_out = NoLen

Init ==
    /\ heap \in {<<>>} \cup TestHeaps
    /\ phase = "build"
    /\ Idle

(***************************************************************************)
(* Building nouns.  Atoms are made first, in the order of the pool, then   *)
(* cells: every noun over the pool, with every pattern of sharing, is      *)
(* built this way.                                                         *)
(***************************************************************************)
NewAtom(i) ==
    /\ phase = "build"
    /\ Len(heap) < MaxNodes
    /\ \/ heap = <<>>
       \/ /\ heap # <<>>
          /\ heap[Len(heap)].tag = "atom"
          /\ \E j \in 1..i : heap[Len(heap)].atom = AtomPool[j]
    /\ heap' = Append(heap, atom_node(AtomPool[i]))
    /\ UNCHANGED <<phase, enc, jammed, extra, kept, cued, len_in, len_out>>
    /\ UNCHANGED lib_vars

NewCell(h, t) ==
    /\ phase = "build"
    /\ Len(heap) < MaxNodes
    /\ heap' = Append(heap, cell_node(h, t))
    /\ UNCHANGED <<phase, enc, jammed, extra, kept, cued, len_in, len_out>>
    /\ UNCHANGED lib_vars

\* noun.jam() of the noun built last.
Jam ==
    /\ phase = "build"
    /\ heap # <<>>
    /\ enc' = jam_state(heap, Len(heap))
    /\ jammed' = into_atom(enc'.bits)
    /\ kept' = jammed'.bit_len
    /\ phase' = "jammed"
    /\ UNCHANGED <<heap, extra, cued, len_in, len_out>>
    /\ UNCHANGED lib_vars

\* The caller copies jam's bits into a builder and pushes more bits.
Extend(bits) ==
    /\ phase = "jammed"
    /\ extra' = bits
    /\ jammed' = into_atom(push_bits(push_bits(builder_new, atom_bits(jammed)), bits))
    /\ phase' = "extended"
    /\ UNCHANGED <<heap, enc, kept, cued, len_in, len_out>>
    /\ UNCHANGED lib_vars

\* The caller copies only the first k bits of jam's output into a builder.
Truncate(k) ==
    /\ phase = "jammed"
    /\ k < kept
    /\ kept' = k
    /\ jammed' = into_atom(push_bits(builder_new, SubSeq(atom_bits(jammed), 1, k)))
    /\ phase' = "truncated"
    /\ UNCHANGED <<heap, enc, extra, cued, len_in, len_out>>
    /\ UNCHANGED lib_vars

\* Noun::cue(jammed), in a build with or without overflow checks.
Cue ==
    /\ phase \in {"jammed", "extended", "truncated", "stream"}
    /\ \E checks \in BOOLEAN : cued' = cue(jammed, checks)
    /\ phase' = "cued"
    /\ UNCHANGED <<heap, enc, jammed, extra, kept, len_in, len_out>>
    /\ UNCHANGED lib_vars

Next ==
    \/ \E i \in 1..Len(AtomPool) : NewAtom(i)
    \/ \E h, t \in 1..Len(heap) : NewCell(h, t)
    \/ Jam
    \/ \E bits \in Extras : Extend(bits)
    \/ \E k \in 0..(kept - 1) : Truncate(k)
    \/ Cue

Spec == Init /\ [][Next]_vars

(***************************************************************************)
(* The stream format, written from its description: what the properties    *)
(* below compare the encoder's output with.                                *)
(***************************************************************************)
\* The bits a builder holds, first pushed first.
builder_bits(b) ==
    [i \in 1..b.bit_idx |-> byte_bit(b.bytes[((i - 1) \div U8Bits) + 1], (i - 1) % U8Bits)]

\* The bit width of a natural number: 0 for 0, else k with 2^(k-1) <= n < 2^k.
BitWidth(n) == IF n = 0 THEN 0 ELSE CHOOSE k \in 1..31 : Pow2(k - 1) <= n /\ n < Pow2(k)

\* The low k bits of n, lowest first.
LowBits(n, k) == [i \in 1..k |-> (n \div Pow2(i - 1)) % 2 = 1]

Zeros(k) == [i \in 1..k |-> FALSE]

\* k zero bits, a 1 bit, then the low k-1 bits of n, where k is the bit width of n.
LengthPrefix(n) ==
    LET k == BitWidth(n)
    IN  Zeros(k) \o <<TRUE>> \o (IF k = 0 THEN <<>> ELSE LowBits(n, k - 1))

\* The bit_len bits of an atom, lowest first.
AtomPayload(a) ==
    [i \in 1..a.bit_len |-> byte_bit(a.bytes[((i - 1) \div U8Bits) + 1], (i - 1) % U8Bits)]

\* Tag 0, the length prefix of bit_len, the bits.
AtomFormat(a) == <<FALSE>> \o LengthPrefix(a.bit_len) \o AtomPayload(a)

\* Tag 1,1, the length prefix of the bit width of q, the bits of q.
BackrefFormat(q) == <<TRUE, TRUE>> \o LengthPrefix(BitWidth(q)) \o LowBits(q, BitWidth(q))

\* A noun without repeated subtrees: cells are tag 1,0, the head, the tail.
RECURSIVE NounFormat(_)
NounFormat(v) ==
    IF v.tag = "atom" THEN AtomFormat(v.atom)
    ELSE <<TRUE, FALSE>> \o NounFormat(v.kids[1]) \o NounFormat(v.kids[2])

\* Any noun: seen maps each noun written so far to the position of its tag.
RECURSIVE JamFormat(_, _)
JamFormat(v, st) ==
    IF v \in DOMAIN st.seen
    THEN LET q == st.seen[v]
         IN  IF v.tag = "atom" /\ v.atom.bit_len <= BitWidth(q)
             THEN [st EXCEPT !.bits = @ \o AtomFormat(v.atom)]
             ELSE [st EXCEPT !.bits = @ \o BackrefFormat(q)]
    ELSE LET st1 == [st EXCEPT !.seen = (v :> Len(st.bits)) @@ st.seen]
         IN  IF v.tag = "atom"
             THEN [st1 EXCEPT !.bits = @ \o AtomFormat(v.atom)]
             ELSE JamFormat(v.kids[2],
                            JamFormat(v.kids[1], [st1 EXCEPT !.bits = @ \o <<TRUE, FALSE>>]))

JamFormatOf(v) == JamFormat(v, [bits |-> <<>>, seen |-> <<>>])

\* Every occurrence of a subtree of v, the noun itself first.
RECURSIVE Occurrences(_)
Occurrences(v) ==
    <<v>> \o (IF v.tag = "cell" THEN Occurrences(v.kids[1]) \o Occurrences(v.kids[2]) ELSE <<>>)

Repeated(v, tag) ==
    LET occ == Occurrences(v)
    IN  \E i, j \in 1..Len(occ) : i < j /\ occ[i] = occ[j] /\ occ[i].tag = tag

\* The same noun built with no pointer used twice: one node for each occurrence.
RECURSIVE tree_heap(_)
tree_heap(v) ==
    IF v.tag = "atom" THEN <<atom_node(v.atom)>>
    ELSE LET h == tree_heap(v.kids[1])
             t == tree_heap(v.kids[2])
             moved == [i \in 1..Len(t) |->
                          IF t[i].tag = "cell"
                          THEN cell_node(t[i].head + Len(h), t[i].tail + Len(h))
                          ELSE t[i]]
         IN  h \o moved \o <<cell_node(Len(h), Len(h) + Len(t))>>

\* The noun the caller jams, as a value.
Root == noun_value(heap, Len(heap))

\* The atom jam returned.
JamOutput == into_atom(enc.bits)

\* cue was given jam's output as it is.
CuedJamOutput == phase = "cued" /\ heap # <<>> /\ extra = <<>> /\ kept = JamOutput.bit_len

\* cue returned Ok with a noun structurally equal to the one jammed.
CuedEqual == cued.kind = "ok" /\ noun_value(cued.st.heap, cued.noun) = Root

\* The nouns of the test vectors.
Heap_0 == <<U8Node(0)>>

Heap_1 == <<U8Node(1)>>

Heap_2 == <<U8Node(2)>>

Heap_19 == <<U8Node(19)>>

Heap_0_19 == <<U8Node(0), U8Node(19), cell_node(1, 2)>>

Heap_222_444_888 ==
    <<U16Node(222), U16Node(444), U16Node(888), cell_node(2, 3), cell_node(1, 4)>>

Heap_1_1 == <<U8Node(1), U8Node(1), cell_node(1, 2)>>

Heap_10000_10000 == <<U16Node(10000), U16Node(10000), cell_node(1, 2)>>

Heap_107_110_twice == <<U8Node(107), U8Node(110), cell_node(1, 2), cell_node(3, 3)>>

\* jam's output for each, in little-endian bytes: 2, 12, 72, 2480, 39689,
\* 250038217192960129, 817, 4952983169, 635080761093.
ExpectedJam ==
    (Heap_0 :> <<2>>) @@ (Heap_1 :> <<12>>) @@ (Heap_2 :> <<72>>) @@ (Heap_19 :> <<176, 9>>)
    @@ (Heap_0_19 :> <<9, 155>>)
    @@ (Heap_222_444_888 :> <<129, 240, 14, 12, 111, 80, 120, 3>>)
    @@ (Heap_1_1 :> <<49, 3>>)
    @@ (Heap_10000_10000 :> <<129, 134, 56, 39, 1>>)
    @@ (Heap_107_110_twice :> <<5, 95, 195, 221, 147>>)

\* C1: cue(n.jam()) is Ok with a noun structurally equal to n, for every noun n
\* built from the public constructors.
C1_RoundTrip == CuedJamOutput => CuedEqual

\* C2: for a noun with no repeated subtree jam writes the plain format (an
\* atom is tag 0, length prefix, bits; a cell is tag 1,0, head, tail), the six
\* test vectors have the stated values, and cue of each gives the noun back.
C2_PlainFormat ==
    /\ (phase = "jammed" /\ ~Repeated(Root, "atom") /\ ~Repeated(Root, "cell"))
          => builder_bits(enc.bits) = NounFormat(Root)
    /\ \A h \in {Heap_0, Heap_1, Heap_2, Heap_19, Heap_0_19, Heap_222_444_888} :
          /\ (phase = "jammed" /\ heap = h) => jammed.bytes = ExpectedJam[h]
          /\ (CuedJamOutput /\ heap = h) => CuedEqual

\* A noun of three atoms without repetition was jammed, and cue gave it back.
C2_Witness ==
    /\ CuedJamOutput
    /\ heap = Heap_222_444_888
    /\ JamOutput.bytes = ExpectedJam[Heap_222_444_888]
    /\ cued.kind = "ok"

\* C3: an atom met again at cache position q is written inline when
\* bit_len(a) <= bit_len(q), leaving the cache as it was, and as a
\* back-reference to q otherwise; jam([1 1]) = 817 has no back-reference and
\* in jam([10000 10000]) = 4952983169 the second atom is a back-reference to 2.
C3_AtomBackrefPolicy ==
    /\ (phase = "jammed" /\ Repeated(Root, "atom") /\ ~Repeated(Root, "cell"))
          => /\ builder_bits(enc.bits) = JamFormatOf(Root).bits
             /\ enc.cache = JamFormatOf(Root).seen
    /\ (phase = "jammed" /\ heap = Heap_1_1)
          => /\ jammed.bytes = ExpectedJam[Heap_1_1]
             /\ builder_bits(enc.bits) = <<TRUE, FALSE>> \o AtomFormat(heap[1].atom)
                                             \o AtomFormat(heap[2].atom)
    /\ (phase = "jammed" /\ heap = Heap_10000_10000)
          => /\ jammed.bytes = ExpectedJam[Heap_10000_10000]
             /\ builder_bits(enc.bits) = <<TRUE, FALSE>> \o AtomFormat(heap[1].atom)
                                             \o BackrefFormat(2)

\* [2 2] from two separate atoms was jammed: the atom is as long as its index.
C3_Witness ==
    /\ phase = "jammed"
    /\ heap = <<U8Node(2), U8Node(2), cell_node(1, 2)>>
    /\ heap[2].atom.bit_len = BitWidth(enc.cache[noun_value(heap, 2)])

\* C4: a cell equal to a cell already written at position q is always
\* written as a back-reference to q; jam([[107 110] [107 110]]) = 635080761093.
C4_CellBackref ==
    /\ (phase = "jammed" /\ Repeated(Root, "cell"))
          => /\ builder_bits(enc.bits) = JamFormatOf(Root).bits
             /\ enc.cache = JamFormatOf(Root).seen
    /\ (phase = "jammed" /\ heap = Heap_107_110_twice)
          => /\ jammed.bytes = ExpectedJam[Heap_107_110_twice]
             /\ builder_bits(enc.bits) =
                   <<TRUE, FALSE>> \o NounFormat(noun_value(heap, 3)) \o BackrefFormat(2)

\* A cell whose head and tail are the same small cell was jammed.
C4_Witness ==
    /\ phase = "jammed"
    /\ Len(heap) = MaxNodes
    /\ Repeated(Root, "cell")
    /\ heap[1].atom.bit_len = 0

\* C5: jam's output depends on the noun's structure alone: it is the output
\* for the same noun built with no pointer shared.
C5_StructuralKey ==
    phase = "jammed" =>
        LET copy == tree_heap(Root)
        IN  /\ jam_state(copy, Len(copy)).bits = enc.bits
            /\ jam(copy, Len(copy)) = jammed

\* [19 19] with one pointer as head and tail was jammed with a back-reference.
C5_Witness ==
    /\ phase = "jammed"
    /\ heap = <<U8Node(19), cell_node(1, 1)>>
    /\ tree_heap(Root) # heap
    /\ builder_bits(enc.bits) = <<TRUE, FALSE>> \o AtomFormat(heap[1].atom) \o BackrefFormat(2)

\* C7: cue of a stream that ends before the noun is complete returns an error
\* value: it does not panic and returns no noun.
C7_TruncatedIsError ==
    (phase = "cued" /\ heap # <<>> /\ kept < JamOutput.bit_len) => cued.kind = "err"

\* C10: cue of jam(n) followed by any bits returns a noun equal to n and stops
\* at the end of the noun.
C10_TrailingBitsIgnored ==
    (phase = "cued" /\ heap # <<>> /\ extra # <<>>)
        => /\ CuedEqual
           /\ iter_pos(cued.st.it) = builder_pos(enc.bits)

\* The bits of s from position p (counted from 0) on.
BitsFrom(s, p) == SubSeq(s, p + 1, Len(s))

IsPrefix(a, b) == Len(a) <= Len(b) /\ SubSeq(b, 1, Len(a)) = a

\* The bits that open the noun v where it is written first: tag 0 and the
\* atom, or the tag 1,0 of a cell.
FirstBits(v) == IF v.tag = "atom" THEN AtomFormat(v.atom) ELSE <<TRUE, FALSE>>

\* C21: whenever jam inserts (n -> p) into its cache, p is the number of bits
\* written before the first tag bit of n; and when cue decodes that stream,
\* once the noun starting at p has been decoded the decoder's cache maps p to
\* a noun equal to n.
C21_TagPositionSymmetry ==
    /\ phase \in {"jammed", "cued"}
        => \A i \in 1..Len(enc.log) :
               IsPrefix(FirstBits(enc.log[i].noun), BitsFrom(builder_bits(enc.bits), enc.log[i].pos))
    /\ CuedJamOutput
        => \A i \in 1..Len(enc.log) :
               /\ cued.kind = "ok"
               /\ enc.log[i].pos \in DOMAIN cued.st.cache
               /\ noun_value(cued.st.heap, cued.st.cache[enc.log[i].pos]) = enc.log[i].noun

(***************************************************************************)
(* The length codec on its own: encode_len writes the prefix of a length   *)
(* into an empty builder, the bit that follows it in a stream is a 1, and  *)
(* the decoder reads the length back from the start of that atom.          *)
(***************************************************************************)
\* Lengths up to MaxLen, and 2^j and 2^j - 1 for every width of a u64.
MaxLen == 40

u64_pow2(j) == [i \in 1..U64Bits |-> i = j + 1]

u64_pow2_minus_one(j) == [i \in 1..U64Bits |-> i <= j]

LenInputs ==
    {u64_from(n) : n \in 0..MaxLen}
        \cup {u64_pow2(j) : j \in 0..(U64Bits - 1)}
        \cup {u64_pow2_minus_one(j) : j \in 1..U64Bits}

InitLen ==
    /\ LibIdle
    /\ heap = <<>>
    /\ phase = "len"
    /\ len_in \in LenInputs
    /\ enc = encode_start
    /\ jammed = null
    /\ extra = <<>>
    /\ kept = 0
    /\ cued = NoResult
    /\ len_out = NoLen

\* encode_len(len_in, &mut bits) on an empty builder, then one more bit.
EncodeLen ==
    /\ phase = "len"
    /\ enc' = [enc EXCEPT !.bits = encode_len(len_in, builder_new)]
    /\ jammed' = into_atom(push_bit(enc'.bits, TRUE))
    /\ phase' = "len_written"
    /\ UNCHANGED <<heap, extra, kept, cued, len_in, len_out>>
    /\ UNCHANGED lib_vars

\* The length block of decode_atom on the iterator of that atom.
DecodeLen ==
    /\ phase = "len_written"
    /\ \E checks \in BOOLEAN : len_out' = decode_len(jammed, iter_new, checks)
    /\ phase' = "len_read"
    /\ UNCHANGED <<heap, enc, jammed, extra, kept, cued, len_in>>
    /\ UNCHANGED lib_vars

NextLen == EncodeLen \/ DecodeLen

SpecLen == InitLen /\ [][NextLen]_vars

\* The bit width of a u64 given by its bits.
U64Width(x) ==
    IF x = u64_zero THEN 0 ELSE CHOOSE k \in 1..U64Bits : x[k] /\ \A j \in (k + 1)..U64Bits : ~x[j]

\* C6: the decoder's length reading, applied to the bits encode_len(L) writes
\* (k zeros, a 1, the low k-1 bits of L, k the bit width of L), returns L and
\* consumes exactly those bits: 1 bit when L = 0, 2k bits otherwise.
C6_LengthRoundTrip ==
    LET k == U64Width(len_in)
    IN  /\ phase \in {"len_written", "len_read"}
            => /\ builder_bits(enc.bits) =
                     Zeros(k) \o <<TRUE>> \o [i \in 1..(k - 1) |-> len_in[i]]
               /\ builder_pos(enc.bits) = IF k = 0 THEN 1 ELSE 2 * k
        /\ phase = "len_read"
            => /\ len_out.kind = "ok"
               /\ len_out.len = len_in
               /\ iter_pos(len_out.it) = builder_pos(enc.bits)

\* The largest length, 2^64 - 1, was written in 128 bits and read back.
C6_Witness ==
    /\ phase = "len_read"
    /\ len_in = u64_pow2_minus_one(U64Bits)
    /\ len_out.len = len_in
    /\ iter_pos(len_out.it) = 2 * U64Bits

(***************************************************************************)
(* cue on streams that jam did not write: every stream of up to            *)
(* MaxStreamBits bits, streams whose length prefix opens with more than 64 *)
(* zero bits, and streams with a back-reference to nothing.                *)
(***************************************************************************)
MaxStreamBits == 10

\* Back-reference indices tried, 0..MaxIndex.
MaxIndex == 6

\* The atom whose bits are the given ones (Atom::from of its bytes).
StreamAtom(bits) ==
    LET byte_len == (Len(bits) + U8Bits - 1) \div U8Bits
        chunk(j) == SubSeq(bits, U8Bits * (j - 1) + 1,
                           IF U8Bits * j < Len(bits) THEN U8Bits * j ELSE Len(bits))
    IN  from_vec([j \in 1..byte_len |-> u8_of_bits(chunk(j))])

SmallStreams ==
    {StreamAtom(LowBits(n, MaxStreamBits)) : n \in 0..(Pow2(MaxStreamBits) - 1)}

\* A tag, then z > 64 zero bits, a 1 bit, n zero bits and a 1 bit.
LongZeroRunStreams ==
    {StreamAtom(tag \o Zeros(z) \o <<TRUE>> \o Zeros(n) \o <<TRUE>>) :
        tag \in {<<FALSE>>, <<TRUE, TRUE>>},
        z \in {U64Bits + 1, U64Bits + 2},
        n \in {0, U64Bits, U64Bits + 1}}

\* An index of 65 bits: 2^64.
WideIndex == <<TRUE, TRUE>> \o LengthPrefix(U64Bits + 1) \o Zeros(U64Bits) \o <<TRUE>>

\* A back-reference as the whole stream, when the cache is empty, and as the
\* tail of a cell whose head is the atom 0 or 1, when the only key is 2.
DanglingStreams ==
    {StreamAtom(BackrefFormat(q)) : q \in 0..MaxIndex}
        \cup {StreamAtom(<<TRUE, FALSE>> \o AtomFormat(from_uint(a, 1)) \o BackrefFormat(q)) :
                 a \in {0, 1}, q \in (0..MaxIndex) \ {2}}
        \cup {StreamAtom(WideIndex)}
        \cup {StreamAtom(<<TRUE, FALSE>> \o AtomFormat(from_uint(a, 1)) \o WideIndex) :
                 a \in {0, 1}}

\* Cells with a back-reference to the tag position of a cell that encloses
\* it: [#0 0], [0 #0], [[#2 0] 0], [[0 #2] 0], [[0 #0] 0], [1 [#6 0]] and
\* [1 [0 #6]], where #q is a back-reference to position q.
EnclosingStreams ==
    LET zero == AtomFormat(from_uint(0, 1))
        one  == AtomFormat(from_uint(1, 1))
        open == <<TRUE, FALSE>>
    IN  { StreamAtom(open \o BackrefFormat(0) \o zero),
          StreamAtom(open \o zero \o BackrefFormat(0)),
          StreamAtom(open \o open \o BackrefFormat(2) \o zero \o zero),
          StreamAtom(open \o open \o zero \o BackrefFormat(2) \o zero),
          StreamAtom(open \o open \o zero \o BackrefFormat(0) \o zero),
          StreamAtom(open \o one \o open \o BackrefFormat(6) \o zero),
          StreamAtom(open \o one \o open \o zero \o BackrefFormat(6)) }

\* Cells with a back-reference to a noun already decoded: [1 #2],
\* [[0 1] #2], [[0 #4] #2] and [[0 1] [#4 #2]].
SharedStreams ==
    LET zero == AtomFormat(from_uint(0, 1))
        one  == AtomFormat(from_uint(1, 1))
        open == <<TRUE, FALSE>>
    IN  { StreamAtom(open \o one \o BackrefFormat(2)),
          StreamAtom(open \o open \o zero \o one \o BackrefFormat(2)),
          StreamAtom(open \o open \o zero \o BackrefFormat(4) \o BackrefFormat(2)),
          StreamAtom(open \o open \o zero \o one \o open \o BackrefFormat(4)
                         \o BackrefFormat(2)) }

InitStream ==
    /\ LibIdle
    /\ heap = <<>>
    /\ phase = "stream"
    /\ jammed \in SmallStreams \cup LongZeroRunStreams \cup DanglingStreams
                   \cup EnclosingStreams \cup SharedStreams
    /\ enc = encode_start
    /\ extra = <<>>
    /\ kept = 0
    /\ cued = NoResult
    /\ len_in = u64_zero
    /\ len_out = NoLen

\* The trait's cue on the bits of the same atom: cue(jammed.as_bits()).
SerdesCue ==
    /\ phase \in {"jammed", "stream"}
    /\ cued' = serdes_cue(as_bits(jammed.bytes))
    /\ phase' = "serdes_cued"
    /\ UNCHANGED <<heap, enc, jammed, extra, kept, len_in, len_out>>
    /\ UNCHANGED lib_vars

NextStream == Cue \/ SerdesCue

SpecStream == InitStream /\ [][NextStream]_vars

\* C8: when a length prefix opens with more than 64 zero bits cue returns an
\* error value: no shift overflows, cue does not panic and returns no noun.
C8_LengthOverflowIsError ==
    (phase \in {"cued", "serdes_cued"} /\ jammed \in LongZeroRunStreams) => cued.kind = "err"

\* C9: when a back-reference names an index that is not a key of the cache,
\* or that does not fit in 64 bits, cue returns an error and no noun.
C9_DanglingBackrefIsError ==
    (phase \in {"cued", "serdes_cued"} /\ jammed \in DanglingStreams)
        => cued.kind = "err" /\ cued.noun = 0


(***************************************************************************)
(* Axis addressing: Noun::get of src/types/noun.rs (EnumNoun::get of       *)
(* src/noun/types.rs is the same function, line for line).                 *)
(***************************************************************************)
\* A get that takes the tail on an even axis and the head on an odd one.
RECURSIVE get_tail_on_even(_, _, _)
get_tail_on_even(nouns, self, idx) ==
    IF nouns[self].tag = "cell"
    THEN IF idx \in {0, 1} THEN Some(self)
         ELSE IF idx = 2 THEN Some(nouns[self].head)
         ELSE IF idx = 3 THEN Some(nouns[self].tail)
         ELSE IF idx % 2 = 0 THEN get_tail_on_even(nouns, nouns[self].tail, idx \div 2)
         ELSE get_tail_on_even(nouns, nouns[self].head, idx \div 2)
    ELSE None

\* fn get(&self, idx: usize) -> Option<&Self>
RECURSIVE get(_, _, _)
get(nouns, self, idx) ==
    IF nouns[self].tag = "cell"
    THEN IF idx \in {0, 1} THEN Some(self)
         ELSE IF idx = 2 THEN Some(nouns[self].head)
         ELSE IF idx = 3 THEN Some(nouns[self].tail)
         ELSE IF idx % 2 = 0 THEN get(nouns, nouns[self].head, idx \div 2)
         ELSE get(nouns, nouns[self].tail, idx \div 2)
    ELSE None

\* The largest axis given to get.
MaxAxis == 31

\* Noun::Atom(Atom::from(vec![v])) of tests::noun_get.
VecNode(v) == atom_node(from_vec(<<v>>))

\* The nouns get is called on: 4, 0, [4 5], [[4 5] 6], [4 [5 6]],
\* [[4 5] [6 14 15]] of tests::noun_get, and [[[4 5] 6] [[4 5] 6]].
GetHeaps ==
    { <<VecNode(4)>>,
      <<VecNode(0)>>,
      <<VecNode(4), VecNode(5), cell_node(1, 2)>>,
      <<VecNode(4), VecNode(5), cell_node(1, 2), VecNode(6), cell_node(3, 4)>>,
      <<VecNode(5), VecNode(6), cell_node(1, 2), VecNode(4), cell_node(4, 3)>>,
      <<VecNode(14), VecNode(15), cell_node(1, 2), VecNode(6), cell_node(4, 3),
        VecNode(4), VecNode(5), cell_node(6, 7), cell_node(8, 5)>>,
      <<VecNode(4), VecNode(5), cell_node(1, 2), VecNode(6), cell_node(3, 4),
        cell_node(5, 5)>> }

InitGet ==
    /\ Idle
    /\ heap \in GetHeaps
    /\ phase = "get"

\* The caller picks an axis.
PickAxis(n) ==
    /\ phase = "get"
    /\ axis' = n
    /\ phase' = "axis"
    /\ UNCHANGED <<heap, codec_vars, writer_vars, atom_vars, cell_vars, convert_vars, got>>

\* noun.get(axis) on the noun built last.
Get ==
    /\ phase = "axis"
    /\ got' = get(heap, Len(heap), axis)
    /\ phase' = "got"
    /\ UNCHANGED <<heap, codec_vars, writer_vars, atom_vars, cell_vars, convert_vars, axis>>

NextGet == (\E n \in 0..MaxAxis : PickAxis(n)) \/ Get

SpecGet == InitGet /\ [][NextGet]_vars

\* The noun get was called on.
GetRoot == Len(heap)

\* The position an axis names (the walk of the axis from the whole noun: on
\* an even axis into the head, on an odd one into the tail, then the half of
\* the axis), or None when the walk meets an atom with the axis not used up.
RECURSIVE AxisPosition(_, _, _)
AxisPosition(nouns, p, n) ==
    IF n = 1 THEN Some(p)
    ELSE IF nouns[p].tag = "atom" THEN None
    ELSE AxisPosition(nouns, IF n % 2 = 0 THEN nouns[p].head ELSE nouns[p].tail, n \div 2)

\* [[4 5] [6 14 15]] of tests::noun_get and its parts [4 5], [6 14 15], [14 15].
Heap_4_5_6_14_15 ==
    <<VecNode(14), VecNode(15), cell_node(1, 2), VecNode(6), cell_node(4, 3),
      VecNode(4), VecNode(5), cell_node(6, 7), cell_node(8, 5)>>

\* C11: for a cell c and an axis n >= 2, get(c, n) is get(head(c), n/2) when n
\* is even and get(tail(c), n/2) when n is odd, also when n is 2 or 3 and
\* when the head or the tail is an atom.
C11_AxisEquivalence ==
    (phase = "got" /\ heap[GetRoot].tag = "cell" /\ axis >= 2)
        => got = get(heap, IF axis % 2 = 0 THEN heap[GetRoot].head ELSE heap[GetRoot].tail,
                     axis \div 2)

\* C12: get(x, 1) is x itself for every noun x, atom or cell.
C12_AxisOneIsWhole ==
    (phase = "got" /\ axis = 1) => got = Some(GetRoot)

\* C13: get returns None on an atom for every axis above 1, and on a cell
\* exactly when the walk of the axis meets an atom before the axis is used up
\* (it returns the noun at the position otherwise); on [[4 5] [6 14 15]] axis 2
\* is [4 5], axis 3 is [6 14 15], axis 7 is [14 15] and axis 12 is not present.
C13_MissingAxis ==
    /\ (phase = "got" /\ heap[GetRoot].tag = "atom" /\ axis > 1) => got = None
    /\ (phase = "got" /\ heap[GetRoot].tag = "cell" /\ axis >= 1)
           => got = AxisPosition(heap, GetRoot, axis)
    /\ (phase = "got" /\ heap = Heap_4_5_6_14_15)
           => /\ axis = 2 => got = Some(8)
              /\ axis = 3 => got = Some(5)
              /\ axis = 7 => got = Some(3)
              /\ axis = 12 => got = None

\* get(12) on [[4 5] [6 14 15]] has returned: the walk meets the atom 4.
C13_Witness ==
    /\ phase = "got"
    /\ heap = Heap_4_5_6_14_15
    /\ axis = 12
    /\ got = None
    /\ AxisPosition(heap, GetRoot, 12) = None

\* C27: for every noun x and every axis n >= 1 such that get(x, n) is a cell,
\* get(x, 2n) is the head of that cell and get(x, 2n + 1) is its tail: axis 4
\* is the head of the head, 5 the tail of the head, 6 the head of the tail
\* and 7 the tail of the tail.
C27_AxisLanguage ==
    (phase = "got" /\ axis >= 1 /\ got.some /\ heap[got.noun].tag = "cell")
        => /\ get(heap, GetRoot, 2 * axis) = Some(heap[got.noun].head)
           /\ get(heap, GetRoot, 2 * axis + 1) = Some(heap[got.noun].tail)


(***************************************************************************)
(* Atoms on their own: the constructors, the Builder, the bit iterator and *)
(* the conversions to unsigned integers of src/atom.rs.  An unsigned       *)
(* integer of N bytes is given by its N little-endian bytes.               *)
(***************************************************************************)
\* atom_as_uint!($atom, $uint) with N = size_of::<$uint>()
as_uint(a, N) ==
    IF Len(a.bytes) <= N
    THEN [some |-> TRUE, bytes |-> [i \in 1..N |-> IF i <= Len(a.bytes) THEN a.bytes[i] ELSE 0]]
    ELSE NoUint

\* size_of of u8, u16, u32, u64, u128; usize is one of u32, u64.
UintSizes == {1, 2, 4, 8, 16}

\* Bounds of the model: the bytes of a vector or a string, the bits pushed
\* onto a Builder, and the calls of next after the iterator has ended.
MaxBytes == 2

MaxPush == 9

MaxNextsAfterEnd == 2

\* The byte values vectors are made of, and those of strings (UTF-8: NUL,
\* U+0001, "A").
ByteValues == {0, 1, 7, 139, 255}

StrValues == {0, 1, 65}

SeqsUpTo(values, n) == UNION {[1..k -> values] : k \in 0..n}

\* Vectors with one 1 byte at index n, and those followed by a zero byte.
WideVecs ==
    {[i \in 1..(n + z) |-> IF i = n THEN 1 ELSE 0] : n \in {3, 4, 5, 8, 9, 16, 17}, z \in {0, 1}}

ByteVecs == SeqsUpTo(ByteValues, MaxBytes) \cup WideVecs

Strings == SeqsUpTo(StrValues, MaxBytes)

\* The integers of tests::iter: 0b0u8, 0b10u8 and 0x2f004u32.
TestUints == {<<0>>, <<2>>, <<4, 240, 2, 0>>}

\* The values of an unsigned integer of N bytes: 0, one byte 1 or 255 and
\* the others 0, the maximum, and those of the tests.
UintValues(N) ==
    {[i \in 1..N |-> IF i = k THEN v ELSE 0] : k \in 1..N, v \in {0, 1, 255}}
        \cup {[i \in 1..N |-> 255]}
        \cup {le \in TestUints : Len(le) = N}

\* Streams cue reads one atom from: jam of 0, 1 and 19, and a stream whose
\* atom has the length 9 and the bits of 1, followed by a 1 bit.
CueAtomStreams ==
    {StreamAtom(AtomFormat(from_uint(v, 1))) : v \in {0, 1, 19}}
        \cup {StreamAtom(<<FALSE>> \o LengthPrefix(U8Bits + 1) \o <<TRUE>> \o Zeros(U8Bits)
                             \o <<TRUE>>)}

InitAtom ==
    /\ Idle
    /\ heap = <<>>
    /\ phase = "atom_new"

\* The atom under test is made: every variable of the atoms but made and atom
\* (and the builder, when it made the atom) stays as it is.
Made(by, from, a) ==
    /\ made' = [by |-> by, from |-> from]
    /\ atom' = a
    /\ phase' = "atom"
    /\ UNCHANGED <<heap, codec_vars, writer_vars, get_vars, cell_vars, convert_vars, it, yielded, last, nexts, again, conv>>

\* Atom::null()
AtomNull ==
    /\ phase = "atom_new"
    /\ Made("null", <<>>, null)
    /\ UNCHANGED <<bld, pushed>>

\* Atom::from(vec)
FromVec(vec) ==
    /\ phase = "atom_new"
    /\ Made("vec", vec, from_vec(vec))
    /\ UNCHANGED <<bld, pushed>>

\* Atom::from(uint) for an unsigned integer given by its bytes
FromUint(le) ==
    /\ phase = "atom_new"
    /\ Made("uint", le, from_vec(le))
    /\ UNCHANGED <<bld, pushed>>

\* Atom::from(string) for a &str
FromStr(string) ==
    /\ phase = "atom_new"
    /\ Made("str", string, from_str(string))
    /\ UNCHANGED <<bld, pushed>>

\* Atom::from(string) for a String: Self::from(string.into_bytes())
FromString(string) ==
    /\ phase = "atom_new"
    /\ Made("string", string, from_vec(string))
    /\ UNCHANGED <<bld, pushed>>

\* The atom of Noun::cue(stream) when it returns an atom.
FromCue(stream, checks) ==
    LET returned(r) ==
            /\ r.kind = "ok"
            /\ r.st.heap[r.noun].tag = "atom"
            /\ Made("cue", stream.bytes, r.st.heap[r.noun].atom)
    IN  /\ phase = "atom_new"
        /\ returned(cue(stream, checks))
        /\ UNCHANGED <<bld, pushed>>

\* Atom::builder()
BuilderNew ==
    /\ phase = "atom_new"
    /\ bld' = builder_new
    /\ pushed' = <<>>
    /\ phase' = "building"
    /\ UNCHANGED <<heap, codec_vars, writer_vars, get_vars, cell_vars, convert_vars, made, atom, it, yielded, last, nexts, again, conv>>

\* builder.push_bit(bit)
PushBit(bit) ==
    /\ phase = "building"
    /\ Len(pushed) < MaxPush
    /\ bld' = push_bit(bld, bit)
    /\ pushed' = Append(pushed, bit)
    /\ UNCHANGED <<heap, phase, codec_vars, writer_vars, get_vars, cell_vars, convert_vars, made, atom, it, yielded, last, nexts,
                   again, conv>>

\* builder.into_atom()
IntoAtom ==
    /\ phase = "building"
    /\ Made("builder", pushed, into_atom(bld))
    /\ UNCHANGED <<bld, pushed>>

\* Atom::from(atom.as_bytes().to_vec())
FromBytesAgain ==
    /\ phase = "atom"
    /\ again' = from_vec(atom.bytes)
    /\ phase' = "recanon"
    /\ UNCHANGED <<heap, codec_vars, writer_vars, get_vars, cell_vars, convert_vars, made, atom, bld, pushed, it, yielded, last,
                   nexts, conv>>

\* atom.as_u8() .. atom.as_u128(), atom.as_usize()
AsUint(N) ==
    /\ phase = "atom"
    /\ conv' = [width |-> N, ret |-> as_uint(atom, N)]
    /\ phase' = "converted"
    /\ UNCHANGED <<heap, codec_vars, writer_vars, get_vars, cell_vars, convert_vars, made, atom, bld, pushed, it, yielded, last,
                   nexts, again>>

\* atom.iter()
IterStart ==
    /\ phase = "atom"
    /\ it' = iter_new
    /\ yielded' = <<>>
    /\ last' = NoBit
    /\ nexts' = 0
    /\ phase' = "iterating"
    /\ UNCHANGED <<heap, codec_vars, writer_vars, get_vars, cell_vars, convert_vars, made, atom, bld, pushed, again, conv>>

\* iter.next(), also after it has returned None.
IterNext ==
    LET returned(r) ==
            /\ it' = r.it
            /\ last' = [some |-> r.some, bit |-> r.bit]
            /\ yielded' = IF r.some THEN Append(yielded, r.bit) ELSE yielded
    IN  /\ phase = "iterating"
        /\ nexts < atom.bit_len + MaxNextsAfterEnd
        /\ returned(iter_next(atom, it))
        /\ nexts' = nexts + 1
        /\ UNCHANGED <<heap, phase, codec_vars, writer_vars, get_vars, cell_vars, convert_vars, made, atom, bld, pushed, again, conv>>

NextAtom ==
    \/ AtomNull
    \/ \E vec \in ByteVecs : FromVec(vec)
    \/ \E N \in UintSizes : \E le \in UintValues(N) : FromUint(le)
    \/ \E string \in Strings : FromStr(string)
    \/ \E string \in Strings : FromString(string)
    \/ \E stream \in CueAtomStreams : \E checks \in BOOLEAN : FromCue(stream, checks)
    \/ BuilderNew
    \/ \E bit \in BOOLEAN : PushBit(bit)
    \/ IntoAtom
    \/ FromBytesAgain
    \/ \E N \in UintSizes : AsUint(N)
    \/ IterStart
    \/ IterNext

SpecAtom == InitAtom /\ [][NextAtom]_vars

\* A byte sequence with no trailing zero byte.
NoTrailingZero(bytes) == bytes = <<>> \/ bytes[Len(bytes)] # 0

\* Bit i (from 0) of the integer whose little-endian bytes are given.
ValueBit(bytes, i) ==
    (i \div U8Bits) < Len(bytes) /\ byte_bit(bytes[(i \div U8Bits) + 1], i % U8Bits)

\* The least number of bits that holds that integer: 0 for zero.
MinBits(bytes) ==
    LET ones == {i \in 0..(U8Bits * Len(bytes) - 1) : ValueBit(bytes, i)}
    IN  IF ones = {} THEN 0 ELSE 1 + (CHOOSE i \in ones : \A j \in ones : j <= i)

\* The least number of bytes that holds that integer.
MinBytes(bytes) == (MinBits(bytes) + U8Bits - 1) \div U8Bits

\* An atom under test exists.
AtomMade == phase \in {"atom", "recanon", "converted", "iterating"}

\* C14: every atom made by a public constructor (null, From<Vec<u8>>, From of
\* an unsigned integer, From<&str>, From<String>, Builder::into_atom) and
\* every atom cue returns has bytes with no trailing zero byte.
C14_NoTrailingZeroBytes ==
    AtomMade => NoTrailingZero(atom.bytes)


\* C15: for every atom a, Atom::from(a.as_bytes().to_vec()) == a (equality of
\* atoms is equality of their bytes) and a.bit_len() is the least number of
\* bits that holds a's value: 0 for zero, 3 for 7, 8 for 139, 9 for 256.
C15_CanonicalAndMinimal ==
    /\ phase = "recanon" => again.bytes = atom.bytes
    /\ AtomMade => atom.bit_len = MinBits(atom.bytes)
    /\ (AtomMade /\ made.by = "vec")
           => /\ made.from = <<7>> => atom.bit_len = 3
              /\ made.from = <<139>> => atom.bit_len = 8
              /\ made.from = <<0, 1>> => atom.bit_len = 9

\* C16: after k calls of push_bit on a fresh Builder pos() is k, and
\* into_atom() gives an atom whose bit_len() is k, also when the last bits
\* pushed are 0, and whose bit i is the i-th bit pushed.
C16_BuilderBitLen ==
    /\ phase = "building" => builder_pos(bld) = Len(pushed)
    /\ (AtomMade /\ made.by = "builder")
           => /\ atom.bit_len = Len(pushed)
              /\ \A i \in 1..Len(pushed) : ValueBit(atom.bytes, i - 1) = pushed[i]

\* The bits tests::iter expects of 0x2f004u32.
Bits_0x2f004 ==
    <<FALSE, FALSE, TRUE, FALSE, FALSE, FALSE, FALSE, FALSE, FALSE, FALSE, FALSE, FALSE,
      TRUE, TRUE, TRUE, TRUE, FALSE, TRUE>>

C18_FixedWidthConversion ==
    phase = "converted"
        => /\ (made.by = "uint" /\ Len(made.from) = conv.width)
                  => conv.ret = [some |-> TRUE, bytes |-> made.from]
           /\ conv.ret.some <=> MinBytes(atom.bytes) <= conv.width
           /\ conv.ret.some
                  => \A i \in 0..(U8Bits * conv.width - 1) :
                         ValueBit(conv.ret.bytes, i) = ValueBit(atom.bytes, i)


(***************************************************************************)
(* Cells: Cell::from of an array and Cell::as_list of src/cell.rs.         *)
(***************************************************************************)
\* while !remaining.is_empty() { ... cell = Cell::from([single[0].clone(),
\* Rc::new(cell.into_noun())]); }: the cell made last is the last node.
RECURSIVE array_to_cell_loop(_, _)
array_to_cell_loop(nouns, remaining) ==
    IF remaining = <<>> THEN nouns
    ELSE array_to_cell_loop(Append(nouns, cell_node(remaining[Len(remaining)], Len(nouns))),
                            SubSeq(remaining, 1, Len(remaining) - 1))

\* array_to_cell!($list) for a list of two pointers or more: the nouns with
\* the new cells, the cell returned being the last.
array_to_cell(nouns, list) ==
    array_to_cell_loop(Append(nouns, cell_node(list[Len(list) - 1], list[Len(list)])),
                       SubSeq(list, 1, Len(list) - 2))

\* for i in 1..N { match *noun { ... } } of as_list; st = [noun, list, none]
\* with none = TRUE once None has been returned.
RECURSIVE as_list_loop(_, _, _, _)
as_list_loop(nouns, st, i, N) ==
    IF i >= N \/ st.none THEN st
    ELSE IF nouns[st.noun].tag = "atom"
    THEN IF i < N - 1 THEN [st EXCEPT !.none = TRUE]
         ELSE as_list_loop(nouns, [st EXCEPT !.list = Append(st.list, st.noun)], i + 1, N)
    ELSE as_list_loop(nouns,
                      [noun |-> nouns[st.noun].tail,
                       list |-> Append(st.list, nouns[st.noun].head),
                       none |-> FALSE],
                      i + 1, N)

\* pub fn as_list<const N: usize>(&self) -> Option<[Rc<Noun>; N]>
as_list(nouns, self, N) ==
    LET returned(st) == IF st.none THEN NoList ELSE [some |-> TRUE, nouns |-> st.list]
    IN  returned(as_list_loop(nouns,
                              [noun |-> nouns[self].tail, list |-> <<nouns[self].head>>,
                               none |-> FALSE],
                              1, N))

\* The longest array given to Cell::from; as_list is asked one more at most.
MaxList == 3

\* The nouns arrays are made of: 0, 1, 2, [1 2] and [0 1 2].
ListElements ==
    <<U8Node(0), U8Node(1), U8Node(2), cell_node(2, 3), cell_node(1, 4)>>

InitCell ==
    /\ Idle
    /\ heap = ListElements
    /\ phase = "cell_new"

\* Cell::from(list) for an array of pointers
CellFrom(list) ==
    /\ phase = "cell_new"
    /\ heap' = array_to_cell(heap, list)
    /\ cell' = Len(heap')
    /\ elems' = list
    /\ phase' = "cell"
    /\ UNCHANGED <<codec_vars, writer_vars, get_vars, atom_vars, convert_vars, listed>>

\* A cell that exists already is taken as it is.
CellPick(p) ==
    /\ phase = "cell_new"
    /\ heap[p].tag = "cell"
    /\ cell' = p
    /\ phase' = "cell"
    /\ UNCHANGED <<heap, codec_vars, writer_vars, get_vars, atom_vars, convert_vars, elems, listed>>

\* cell.as_list::<N>()
AsList(N) ==
    /\ phase = "cell"
    /\ listed' = [N |-> N, ret |-> as_list(heap, cell, N)]
    /\ phase' = "listed"
    /\ UNCHANGED <<heap, codec_vars, writer_vars, get_vars, atom_vars, convert_vars, cell, elems>>

NextCell ==
    \/ \E k \in 2..MaxList : \E list \in [1..k -> 1..Len(ListElements)] : CellFrom(list)
    \/ \E p \in 1..Len(heap) : CellPick(p)
    \/ \E N \in 2..(MaxList + 1) : AsList(N)

SpecCell == InitCell /\ [][NextCell]_vars

\* The first n elements of the right-nested form of the noun at p: [some,
\* nouns], the last element being the whole noun at the deepest tail position;
\* none when the right spine holds fewer than n elements.
RECURSIVE RightSpine(_, _, _)
RightSpine(nouns, p, n) ==
    IF n = 1 THEN [some |-> TRUE, nouns |-> <<p>>]
    ELSE IF nouns[p].tag = "atom" THEN NoList
    ELSE LET rest == RightSpine(nouns, nouns[p].tail, n - 1)
         IN  IF rest.some THEN [some |-> TRUE, nouns |-> <<nouns[p].head>> \o rest.nouns]
             ELSE NoList

\* C19: for N >= 2, as_list::<N>() on a cell returns Some([a1, ..., aN])
\* exactly when the cell has the right-nested form (a1, (a2, (..., aN))), aN
\* being whatever noun sits at the deepest tail position, a cell or an atom,
\* and None when the right spine holds fewer than N elements; it inverts
\* Cell::from([a1, ..., aN]).
C19_AsList ==
    phase = "listed"
        => /\ listed.ret = RightSpine(heap, cell, listed.N)
           /\ Len(elems) = listed.N => listed.ret = [some |-> TRUE, nouns |-> elems]


(***************************************************************************)
(* Lists: the convert! macro of src/convert.rs, with String elements in    *)
(* one direction and &OsStr elements in the other.                         *)
(***************************************************************************)
\* str::from_utf8(bytes).is_ok(), for bytes that are ASCII or 0xff: a byte
\* below 0x80 is a character of its own, 0xff occurs in no UTF-8 sequence.
from_utf8_ok(bytes) == \A i \in 1..Len(bytes) : bytes[i] < 128

\* impl TryFrom<&OsStr> for Atom: string.to_str().ok_or(())?, then From<&str>
atom_try_from_os_str(string) ==
    IF from_utf8_ok(string) THEN [ok |-> TRUE, atom |-> from_str(string)]
    ELSE [ok |-> FALSE, atom |-> null]

\* String::try_from(&noun): the text of an atom (Atom::as_str), an error for
\* a cell and for an atom that is no valid UTF-8.
string_try_from(nouns, p) ==
    IF nouns[p].tag = "cell" THEN [ok |-> FALSE, elem |-> <<>>, err |-> "UnexpectedCell"]
    ELSE IF from_utf8_ok(nouns[p].atom.bytes)
    THEN [ok |-> TRUE, elem |-> nouns[p].atom.bytes, err |-> "none"]
    ELSE [ok |-> FALSE, elem |-> <<>>, err |-> "AtomToStr"]

\* Atom::is_null: self.bit_len() == 0
is_null(a) == a.bit_len = 0

\* convert!($noun => Vec<String>): the loop from the noun `noun` on, with the
\* elements pushed so far.
RECURSIVE convert_to_vec_loop(_, _, _)
convert_to_vec_loop(nouns, noun, pushed_elems) ==
    IF nouns[noun].tag = "atom"
    THEN IF is_null(nouns[noun].atom)
         THEN [ok |-> TRUE, elems |-> pushed_elems, err |-> "none"]
         ELSE [ok |-> FALSE, elems |-> <<>>, err |-> "ExpectedNull"]
    ELSE LET matched(r) ==
                 IF r.ok
                 THEN convert_to_vec_loop(nouns, nouns[noun].tail, Append(pushed_elems, r.elem))
                 ELSE [ok |-> FALSE, elems |-> <<>>, err |-> r.err]
         IN  matched(string_try_from(nouns, nouns[noun].head))

convert_to_vec(nouns, noun) == convert_to_vec_loop(nouns, noun, <<>>)

\* convert!($iter => Noun): the loop over $iter.rev(), `rest` being what the
\* reversed iterator has yet to yield and st = [nouns, noun] the nouns
\* allocated and the list so far.  The result is [ok, nouns, noun].
RECURSIVE convert_to_noun_loop(_, _)
convert_to_noun_loop(st, rest) ==
    IF rest = <<>> THEN [ok |-> TRUE, nouns |-> st.nouns, noun |-> st.noun]
    ELSE LET matched(r) ==
                 IF r.ok
                 THEN convert_to_noun_loop(
                          [nouns |-> st.nouns \o <<atom_node(r.atom),
                                                   cell_node(Len(st.nouns) + 1, st.noun)>>,
                           noun  |-> Len(st.nouns) + 2],
                          SubSeq(rest, 1, Len(rest) - 1))
                 ELSE [ok |-> FALSE, nouns |-> st.nouns, noun |-> 0]
         IN  matched(atom_try_from_os_str(rest[Len(rest)]))

convert_to_noun(nouns, elements) ==
    convert_to_noun_loop([nouns |-> Append(nouns, atom_node(null)), noun |-> Len(nouns) + 1],
                         elements)

\* The longest iterator given to convert!; arrays given to Cell::from are one
\* longer at most, for the terminator.
MaxItems == 3

\* The strings of the elements: "", "a", "\0", "\0\0" and the bytes 0xff.
OsStrings == {<<>>, <<97>>, <<0>>, <<0, 0>>, <<255>>}

\* The nouns that hand-made lists are made of: the null atom, "a", "\0\0",
\* the bytes 0xff, 1 and the cell ["a" "a"].
ConvertElements ==
    <<atom_node(null), atom_node(from_str(<<97>>)), atom_node(from_str(<<0, 0>>)),
      atom_node(from_vec(<<255>>)), U8Node(1), cell_node(2, 2)>>

InitConvert ==
    /\ Idle
    /\ heap = ConvertElements
    /\ phase = "convert_new"

\* convert!(elements.iter() => Noun)
IterToNoun(elements) ==
    LET returned(r) ==
            /\ heap' = r.nouns
            /\ conv_noun' = [by |-> "iter", ok |-> r.ok, noun |-> r.noun]
            /\ phase' = IF r.ok THEN "noun" ELSE "noun_err"
    IN  /\ phase = "convert_new"
        /\ conv_iter' = elements
        /\ returned(convert_to_noun(heap, elements))
        /\ UNCHANGED <<codec_vars, writer_vars, get_vars, atom_vars, cell_vars, conv_vec>>

\* Noun::from(Cell::from(list)) for an array of nouns, as in tests::convert
NounFromArray(list) ==
    /\ phase = "convert_new"
    /\ heap' = array_to_cell(heap, list)
    /\ conv_noun' = [by |-> "array", ok |-> TRUE, noun |-> Len(heap')]
    /\ phase' = "noun"
    /\ UNCHANGED <<codec_vars, writer_vars, get_vars, atom_vars, cell_vars, conv_iter, conv_vec>>

\* A noun that exists already (Noun::null() and the others) is taken as it is.
NounPick(p) ==
    /\ phase = "convert_new"
    /\ conv_noun' = [by |-> "noun", ok |-> TRUE, noun |-> p]
    /\ phase' = "noun"
    /\ UNCHANGED <<heap, codec_vars, writer_vars, get_vars, atom_vars, cell_vars, conv_iter, conv_vec>>

\* convert!(&noun => Vec<String>)
NounToVec ==
    /\ phase = "noun"
    /\ conv_vec' = convert_to_vec(heap, conv_noun.noun)
    /\ phase' = "vec"
    /\ UNCHANGED <<heap, codec_vars, writer_vars, get_vars, atom_vars, cell_vars, conv_iter, conv_noun>>

NextConvert ==
    \/ \E elements \in SeqsUpTo(OsStrings, MaxItems) : IterToNoun(elements)
    \/ \E k \in 2..(MaxItems + 1) : \E list \in [1..k -> 1..Len(ConvertElements)] :
           NounFromArray(list)
    \/ \E p \in 1..Len(heap) : NounPick(p)
    \/ NounToVec

SpecConvert == InitConvert /\ [][NextConvert]_vars

\* The atom zero: no byte of it is set.
IsZero(a) == \A i \in 1..Len(a.bytes) : a.bytes[i] = 0

\* The value of the list [e1 ... eN 0] of the atoms of the given strings.
RECURSIVE ListValue(_)
ListValue(strings) ==
    IF strings = <<>> THEN [tag |-> "atom", atom |-> null, kids |-> <<>>]
    ELSE [tag |-> "cell", atom |-> null,
          kids |-> <<[tag |-> "atom", atom |-> from_str(Head(strings)), kids |-> <<>>],
                     ListValue(Tail(strings))>>]

\* The heads along the right spine of the noun at p, and the atom it ends in.
RECURSIVE SpineHeads(_, _)
SpineHeads(nouns, p) ==
    IF nouns[p].tag = "atom" THEN <<>>
    ELSE <<nouns[p].head>> \o SpineHeads(nouns, nouns[p].tail)

RECURSIVE SpineEnd(_, _)
SpineEnd(nouns, p) ==
    IF nouns[p].tag = "atom" THEN nouns[p].atom ELSE SpineEnd(nouns, nouns[p].tail)

\* A head converts to a String: an atom of valid UTF-8.
HeadConverts(nouns, h) == nouns[h].tag = "atom" /\ from_utf8_ok(nouns[h].atom.bytes)

\* C20: convert!(iter => Noun) over e1..eN yields the right-nested cell
\* [e1 ... eN 0], the null atom for an empty iterator; convert!(&noun =>
\* Vec<T>) succeeds exactly when the noun is a null-terminated list whose
\* every head converts to T, and then returns the heads in order without the
\* terminator; a spine ending in a non-null atom, or a head that does not
\* convert, gives Err.
C20_ListConversion ==
    /\ (phase \in {"noun", "noun_err"} /\ conv_noun.by = "iter"
            /\ \A i \in 1..Len(conv_iter) : from_utf8_ok(conv_iter[i]))
        => /\ conv_noun.ok
           /\ noun_value(heap, conv_noun.noun) = ListValue(conv_iter)
    /\ phase = "vec"
        => LET heads == SpineHeads(heap, conv_noun.noun)
               list  == /\ IsZero(SpineEnd(heap, conv_noun.noun))
                        /\ \A i \in 1..Len(heads) : HeadConverts(heap, heads[i])
           IN  /\ conv_vec.ok <=> list
               /\ conv_vec.ok => conv_vec.elems = [i \in 1..Len(heads) |-> heap[heads[i]].atom.bytes]


(***************************************************************************)
(* The stream-writer encoder: the trait's jam of src/serdes.rs on the      *)
(* nouns the caller builds.                                                *)
(***************************************************************************)
\* Nouns whose head is a cell: [[0 1] 19], [[0 1] 10000 10000] and
\* [[[0 1] 2] 19].
WriterHeaps ==
    { <<U8Node(0), U8Node(1), cell_node(1, 2), U8Node(19), cell_node(3, 4)>>,
      <<U8Node(0), U8Node(1), cell_node(1, 2), U16Node(10000), cell_node(4, 4),
        cell_node(3, 5)>>,
      <<U8Node(0), U8Node(1), cell_node(1, 2), U8Node(2), cell_node(3, 4), U8Node(19),
        cell_node(5, 6)>> }

InitWriter ==
    /\ heap \in {<<>>} \cup TestHeaps \cup WriterHeaps
    /\ phase = "build"
    /\ Idle

\* noun.jam() of the trait, for the noun built last.
SerdesJam ==
    /\ phase = "build"
    /\ heap # <<>>
    /\ wrote' = serdes_jam(heap, Len(heap))
    /\ phase' = "written"
    /\ UNCHANGED <<heap, codec_vars, get_vars, atom_vars, cell_vars, convert_vars>>

NextWriter ==
    \/ \E i \in 1..Len(AtomPool) : NewAtom(i)
    \/ \E h, t \in 1..Len(heap) : NewCell(h, t)
    \/ SerdesJam

SpecWriter == InitWriter /\ [][NextWriter]_vars

\* C22: at every call of Jam::encode the pos argument equals the number of
\* bits already written to dst, and the bit count the call returns equals the
\* number of bits it wrote, tag bits included, for atoms, back-references and
\* cells alike; so every position stored in the cache is the true tag
\* position of its noun.
C22_PositionAccounting ==
    phase = "written"
        => /\ \A i \in 1..Len(wrote.st.calls) :
                  /\ wrote.st.calls[i].pos = wrote.st.calls[i].before
                  /\ wrote.st.calls[i].ret = wrote.st.calls[i].wrote
           /\ \A v \in DOMAIN wrote.st.cache :
                  IsPrefix(FirstBits(v), BitsFrom(wrote.st.dst, wrote.st.cache[v]))


(***************************************************************************)
(* jam and cue together: the nouns the caller builds are jammed and the    *)
(* output is given to both decoders.                                       *)
(***************************************************************************)
NextRound ==
    \/ \E i \in 1..Len(AtomPool) : NewAtom(i)
    \/ \E h, t \in 1..Len(heap) : NewCell(h, t)
    \/ Jam
    \/ Cue
    \/ SerdesCue

SpecRound == Init /\ [][NextRound]_vars

\* C23: the last bit jam writes is 1, so the atom jam returns has a bit_len
\* equal to the number of bits written and bytes with no trailing zero byte:
\* it equals Atom::from of its own bytes.
C23_JamOutputCanonical ==
    phase = "jammed"
        => /\ builder_bits(enc.bits)[builder_pos(enc.bits)]
           /\ jammed.bit_len = builder_pos(enc.bits)
           /\ NoTrailingZero(jammed.bytes)
           /\ from_vec(jammed.bytes) = jammed

\* The number a sequence of bits stands for, lowest bit first.
RECURSIVE BitsValue(_)
BitsValue(bits) ==
    IF bits = <<>> THEN 0 ELSE (IF Head(bits) THEN 1 ELSE 0) + 2 * BitsValue(Tail(bits))

\* The stream holds the tag 1,1 at position p.
BackrefAt(bits, p) == p + 2 <= Len(bits) /\ bits[p + 1] /\ bits[p + 2]

\* The index of the back-reference whose tag is at position p: k zero bits,
\* a 1 bit, the low k-1 bits of the length, then the bits of the index.
BackrefIndexAt(bits, p) ==
    LET ones == {i \in (p + 3)..Len(bits) : bits[i]}
        stop == CHOOSE i \in ones : \A j \in ones : i <= j
        k    == stop - (p + 3)
        len  == IF k = 0 THEN 0
                ELSE Pow2(k - 1) + BitsValue(SubSeq(bits, stop + 1, stop + k - 1))
    IN  IF k = 0 THEN 0 ELSE BitsValue(SubSeq(bits, stop + k, stop + k - 1 + len))

\* cue or the trait's cue has returned a noun.
CuedOk == phase \in {"cued", "serdes_cued"} /\ cued.kind = "ok"

\* C24: when cue resolves a back-reference with index q, the noun placed at
\* the referring site is the very reference the cache holds for q, not a
\* copy: the cell that refers to it points at the node the cache holds.
C24_SharingOnDecode ==
    CuedOk
        => LET bits == as_bits(jammed.bytes)
               log  == cued.st.log
           IN  \A i \in 1..Len(log) :
                   BackrefAt(bits, log[i].pos)
                       => /\ log[i].noun = cued.st.cache[BackrefIndexAt(bits, log[i].pos)]
                          /\ \E c \in 1..Len(cued.st.heap) :
                                 /\ cued.st.heap[c].tag = "cell"
                                 /\ log[i].noun \in {cued.st.heap[c].head, cued.st.heap[c].tail}

\* [[107 110] [107 110]] was jammed and decoded: head and tail of the noun
\* returned are one node.
C24_Witness ==
    /\ CuedOk
    /\ heap = Heap_107_110_twice
    /\ BackrefAt(as_bits(jammed.bytes), 32)
    /\ cued.st.heap[cued.noun].head = cued.st.heap[cued.noun].tail
    /\ cued.st.heap[cued.st.heap[cued.noun].head].tag = "cell"

\* C25: each call starts with an empty cache and the cache only grows.  In
\* jam no entry is removed or bound again, so every noun keeps the position
\* of its first occurrence (an atom written inline again leaves its entry);
\* in cue no key is removed and a key is bound again to the same noun only.
C25_CachesOnlyGrow ==
    /\ phase \in {"jammed", "cued", "serdes_cued"} /\ heap # <<>>
        => /\ \A i, j \in 1..Len(enc.log) : enc.log[i].noun = enc.log[j].noun => i = j
           /\ DOMAIN enc.cache = {enc.log[i].noun : i \in 1..Len(enc.log)}
           /\ \A i \in 1..Len(enc.log) : enc.cache[enc.log[i].noun] = enc.log[i].pos
           /\ enc.cache = JamFormatOf(Root).seen
    /\ phase \in {"cued", "serdes_cued"}
        => LET log == cued.st.log
           IN  /\ \A i, j \in 1..Len(log) : log[i].pos = log[j].pos => log[i].noun = log[j].noun
               /\ DOMAIN cued.st.cache = {log[i].pos : i \in 1..Len(log)}
               /\ \A i \in 1..Len(log) : cued.st.cache[log[i].pos] = log[i].noun

\* [1 1] was jammed, the second 1 inline, and decoded: the decoder bound
\* position 2 twice, in decode and again in the call for the cell.
C25_Witness ==
    /\ phase = "cued"
    /\ heap = Heap_1_1
    /\ Len(enc.log) = 2
    /\ \E i, j \in 1..Len(cued.st.log) : i < j /\ cued.st.log[i].pos = cued.st.log[j].pos


(***************************************************************************)
(* The size policy: nouns [a a] and [f [a a]], where the filler f moves    *)
(* the first occurrence of a to cache positions of every width up to 6.    *)
(***************************************************************************)
Fillers ==
    { from_vec(<<>>), from_vec(<<1>>), from_vec(<<255>>), from_vec(<<255, 255>>),
      from_vec(<<0, 0, 1>>), from_vec(<<255, 255, 255, 255>>) }

PolicyAtoms ==
    { from_uint(v, 1) : v \in {0, 1, 2, 3, 4, 7, 8, 15, 16, 31, 32, 63, 64, 127, 128, 254} }
        \cup { from_uint(10000, 2), from_str(<<1, 0>>) }

PolicyHeaps ==
    { <<atom_node(a), cell_node(1, 1)>> : a \in PolicyAtoms }
        \cup { <<atom_node(f), atom_node(a), cell_node(2, 2), cell_node(1, 3)>> :
                   f \in Fillers, a \in PolicyAtoms }

InitPolicy ==
    /\ heap \in PolicyHeaps
    /\ phase = "build"
    /\ Idle
    /\ LibIdle

NextPolicy ==
    \/ Jam
    \/ Cue

SpecPolicy == InitPolicy /\ [][NextPolicy]_vars

\* The repeated atom of the noun jammed and the cache position of its first
\* occurrence.
RepeatedNode == IF Len(heap) = 2 THEN 1 ELSE 2

RepeatedAtom == heap[RepeatedNode].atom

FirstSeen == enc.cache[CacheKey(heap, RepeatedNode)]

\* 1 + the length prefix of bit_len(a) + bit_len(a).
InlineCost(a) == 1 + Len(LengthPrefix(a.bit_len)) + a.bit_len

\* 2 + the length prefix of bit_len(q) + bit_len(q).
BackrefCost(q) == 2 + Len(LengthPrefix(BitWidth(q))) + BitWidth(q)

\* The bits jam wrote for the second occurrence: all it wrote after the
\* first occurrence, which starts at FirstSeen and is written inline.
EmittedBits == builder_pos(enc.bits) - (FirstSeen + InlineCost(RepeatedAtom))

\* jam was given one of the nouns [a a], [f [a a]] with f # a.
PolicyCase ==
    /\ phase \in {"jammed", "cued"}
    /\ heap \in PolicyHeaps
    /\ Len(heap) > 2 => heap[1] # heap[2]

\* C26: for a repeated atom a first seen at cache position q the form jam
\* emits, inline (1 + length prefix of bit_len(a) + bit_len(a) bits) or a
\* back-reference (2 + length prefix of bit_len(q) + bit_len(q) bits), is
\* never longer than the other form.
C26_SizePolicy ==
    PolicyCase
        => /\ EmittedBits \in {InlineCost(RepeatedAtom), BackrefCost(FirstSeen)}
           /\ EmittedBits <= InlineCost(RepeatedAtom)
           /\ EmittedBits <= BackrefCost(FirstSeen)
           /\ InlineCost(RepeatedAtom) = builder_pos(encode_atom(RepeatedAtom, builder_new))
           /\ BackrefCost(FirstSeen) = builder_pos(encode_backref(FirstSeen, builder_new))

\* A repeated atom exactly as long as its index (bit_len 5, position 21) is
\* written inline, one bit shorter than the back-reference.
C26_Witness ==
    /\ PolicyCase
    /\ RepeatedAtom.bit_len = BitWidth(FirstSeen)
    /\ FirstSeen = 21
    /\ EmittedBits = InlineCost(RepeatedAtom)
    /\ EmittedBits + 1 = BackrefCost(FirstSeen)


(***************************************************************************)
(* The shape of the nouns cue returns.                                     *)
(***************************************************************************)
\* The stream holds the tag 1,0 at position p.
CellAt(bits, p) == p + 2 <= Len(bits) /\ bits[p + 1] /\ ~bits[p + 2]

\* The position after a length prefix that starts at position s and the
\* number of bits it announces, or -1 when the stream does not hold them.
PrefixEnd(bits, s) ==
    LET ones == {i \in (s + 1)..Len(bits) : bits[i]}
        stop == CHOOSE i \in ones : \A j \in ones : i <= j
        k    == stop - (s + 1)
        len  == Pow2(k - 1) + BitsValue(SubSeq(bits, stop + 1, stop + k - 1))
    IN  IF ones = {} THEN -1
        ELSE IF k = 0 THEN stop
        ELSE IF k > 6 \/ stop + k - 1 > Len(bits) THEN -1
        ELSE IF stop + k - 1 + len > Len(bits) THEN -1
        ELSE stop + k - 1 + len

\* The position after the noun whose tag is at position p, by the format,
\* or -1 when the stream ends before it or is not in the format.
RECURSIVE FormatEnd(_, _)
FormatEnd(bits, p) ==
    IF p < 0 \/ p >= Len(bits) THEN -1
    ELSE IF ~bits[p + 1] THEN PrefixEnd(bits, p + 1)
    ELSE IF BackrefAt(bits, p) THEN PrefixEnd(bits, p + 2)
    ELSE IF CellAt(bits, p) THEN FormatEnd(bits, FormatEnd(bits, p + 2))
    ELSE -1

\* The cell whose tag is at q encloses position p.
Encloses(bits, q, p) ==
    /\ CellAt(bits, q)
    /\ q < p
    /\ FormatEnd(bits, q) = -1 \/ p < FormatEnd(bits, q)

\* The nodes a walk from p reaches in 1..fuel steps down heads and tails.
RECURSIVE Below(_, _, _)
Below(nouns, p, fuel) ==
    IF fuel = 0 \/ nouns[p].tag = "atom" THEN {}
    ELSE {nouns[p].head, nouns[p].tail}
             \cup Below(nouns, nouns[p].head, fuel - 1)
             \cup Below(nouns, nouns[p].tail, fuel - 1)

\* No node is below itself.
Acyclic(nouns) == \A c \in 1..Len(nouns) : c \notin Below(nouns, c, Len(nouns))

\* C28: cue fails or returns a finite tree-shaped (DAG) noun: no cell of the
\* result is reached from its own head or tail.  A cell is entered
\* into the cache after its head and tail are decoded, so a back-reference to
\* the tag position of a cell that encloses it is not found and cue fails.
C28_DecodedAcyclic ==
    /\ CuedOk
        => LET bits  == as_bits(jammed.bytes)
               calls == cued.st.calls
               nouns == cued.st.heap
           IN  /\ cued.noun \in 1..Len(nouns)
               /\ \A c \in 1..Len(nouns) :
                      nouns[c].tag = "cell"
                          => nouns[c].head \in 1..Len(nouns) /\ nouns[c].tail \in 1..Len(nouns)
               /\ Acyclic(nouns)
               /\ \A i, j \in 1..Len(calls) :
                      BackrefAt(bits, calls[j])
                          => ~(/\ BackrefIndexAt(bits, calls[j]) = calls[i]
                               /\ Encloses(bits, calls[i], calls[j]))
    /\ phase \in {"cued", "serdes_cued"} /\ jammed \in EnclosingStreams
        => cued.kind = "err"

\* cue was given [[#2 0] 0], whose inner cell names itself as its head, and
\* returned CacheMiss.
C28_Witness ==
    /\ phase = "cued"
    /\ jammed = StreamAtom(<<TRUE, FALSE, TRUE, FALSE>> \o BackrefFormat(2)
                               \o AtomFormat(from_uint(0, 1)) \o AtomFormat(from_uint(0, 1)))
    /\ Encloses(as_bits(jammed.bytes), 2, 4)
    /\ BackrefIndexAt(as_bits(jammed.bytes), 4) = 2
    /\ cued.kind = "err"
    /\ cued.err = "CacheMiss"


\* The panic of Rc::try_unwrap(noun).unwrap() at the end of cue.
UnwrapPanic ==
    cued.kind = "panic" /\ cued.err = "unwrap on Err: more than one strong reference"

\* C29: on every successful decode the top-level noun has exactly one strong
\* reference once the cache is dropped, so Rc::try_unwrap(..).unwrap() at the
\* end of cue never panics; a stream whose top-level noun is itself a
\* back-reference fails earlier with an error.
C29_SingleOwner ==
    phase \in {"cued", "serdes_cued"}
        => /\ ~UnwrapPanic
           /\ cued.kind = "ok" => strong_count(cued.st.heap, cued.noun) = 1
           /\ BackrefAt(as_bits(jammed.bytes), 0) => cued.kind = "err"


\* C30: for every finite input atom cue terminates with a noun or an error;
\* it reads the bit positions strictly left to right, each bit at most once:
\* every decode step starts where the one before has read to and consumes at
\* least one bit, and the iterator never goes back or beyond the input.
C30_DecoderProgress ==
    phase = "cued"
        => LET calls == cued.st.calls
           IN  /\ cued.kind \in {"ok", "err"}
               /\ Len(calls) >= 1 /\ calls[1] = 0
               /\ \A i \in 1..(Len(calls) - 1) : calls[i] < calls[i + 1]
               /\ calls[Len(calls)] < iter_pos(cued.st.it)
               /\ iter_pos(cued.st.it) <= jammed.bit_len

=============================================================================
